---- MODULE Spec2Model ----
(***************************************************************************)
(* whatdoing: the document model (parser.py), the frontmatter patch of the *)
(* project screen (ProjectScreen._write_yaml) and the overview file they   *)
(* read and rewrite; the projects of a root directory (models.py) and the  *)
(* journal of day files (services/journal.py).                             *)
(*                                                                         *)
(* A Python str is a sequence of one-character strings; a file is its      *)
(* text.  Indices follow Python (0-based, -1 for "not found") wherever the *)
(* code keeps an index in a variable.                                      *)
(***************************************************************************)
EXTENDS Integers, Sequences, FiniteSets, TLC

VARIABLES
    file,    \* text of the overview file on disk
    prev,    \* text of the file before the last write
    op,      \* the last operation: [name, a, b] (a = key/heading, b = value/content)
    writes,  \* number of writes made so far
    doc,     \* result of the last parse_document(path), or NoDoc
    given,   \* the frontmatter mapping and body a composed file was built from
    project_md,  \* text of the PROJECT.md file merged into the overview
    root,    \* the projects directory: NoRoot or its children by name
    journal, \* the journal directory: the text of each *.md file by stem
    now,     \* the clock: [day, minute]
    out,     \* what the last query returned
    path,    \* a path on disk other than the overview: absent, unreadable or a text
    screen,  \* the ProjectScreen, or NoScreen before it is pushed
    call     \* the call in progress, step by step, or NoCall

docvars == <<file, prev, op, writes, doc, given>>
envvars == <<project_md, root, journal, now, out>>
livevars == <<path, screen, call>>
vars == <<file, prev, op, writes, doc, given, project_md, root, journal, now, out,
          path, screen, call>>

----------------------------------------------------------------------------
(* Bounds of the model. *)

\* longest initial file, in pieces (a piece is a line or a few lines)
MaxPieces == 4
\* longest of the two documents of a merge, in pieces
MaxSections == 3
\* writes per behaviour
MaxWrites == 1
\* most entries of the projects directory
MaxChildren == 3
\* log_work calls per behaviour
MaxLogs == 2
\* most day files of a journal directory that is only read
MaxDays == 8
\* longest hand-written day file, in lines
MaxLines == 4

----------------------------------------------------------------------------
(* str primitives *)

NL == "\n"
SP == " "
\* what str.strip() removes (of the characters the model uses)
Whitespace == {" ", "\n", "\t"}

\* s[i:] for a 0-based i
slice_from(s, i) == SubSeq(s, i + 1, Len(s))

\* s[i:j] for 0-based i, j
slice(s, i, j) == SubSeq(s, i + 1, j)

startswith(s, p) == Len(s) >= Len(p) /\ SubSeq(s, 1, Len(p)) = p

endswith(s, p) == Len(s) >= Len(p) /\ SubSeq(s, Len(s) - Len(p) + 1, Len(s)) = p

contains(s, c) == \E i \in 1..Len(s) : s[i] = c

RECURSIVE lstrip(_)
lstrip(s) ==
    IF Len(s) > 0 /\ s[1] \in Whitespace THEN lstrip(Tail(s)) ELSE s

RECURSIVE rstrip(_)
rstrip(s) ==
    IF Len(s) > 0 /\ s[Len(s)] \in Whitespace
    THEN rstrip(SubSeq(s, 1, Len(s) - 1))
    ELSE s

strip(s) == rstrip(lstrip(s))

\* text.split("\n"): never empty, one more element than there are newlines
RECURSIVE split(_)
split(text) ==
    IF ~contains(text, NL)
    THEN <<text>>
    ELSE LET i == CHOOSE i \in 1..Len(text) :
                     text[i] = NL /\ \A j \in 1..(i - 1) : text[j] # NL
         IN  <<SubSeq(text, 1, i - 1)>> \o split(SubSeq(text, i + 1, Len(text)))

\* "\n".join(lines)
RECURSIVE join(_)
join(lines) ==
    IF Len(lines) = 0 THEN <<>>
    ELSE IF Len(lines) = 1 THEN lines[1]
    ELSE lines[1] \o <<NL>> \o join(Tail(lines))

\* lines[i:] and lines[:i] for a 0-based i
lines_from(lines, i) == SubSeq(lines, i + 1, Len(lines))
lines_upto(lines, i) == SubSeq(lines, 1, i)

----------------------------------------------------------------------------
(* Literals *)

DELIM == <<"-", "-", "-">>
H2 == <<"#", "#", " ">>
H1 == <<"#", " ">>
ITEM == <<"-", " ">>

----------------------------------------------------------------------------
(* parser.py: _extract_metadata *)

\* the first line that starts "# " and not "## "; "" when there is none
RECURSIVE find_title(_)
find_title(lines) ==
    IF Len(lines) = 0 THEN <<>>
    ELSE IF startswith(lines[1], H1) /\ ~startswith(lines[1], H2)
    THEN strip(slice_from(lines[1], 2))
    ELSE find_title(Tail(lines))

\* dict_set that keeps the content a key already has
dict_set_first(sections, heading, content) ==
    IF \E i \in 1..Len(sections) : sections[i][1] = heading
    THEN sections
    ELSE Append(sections, <<heading, content>>)

\* doc.sections[heading] = content on an insertion-ordered dict, kept as a
\* sequence of <<heading, content>> pairs: an existing key keeps its place
dict_set(sections, heading, content) ==
    IF \E i \in 1..Len(sections) : sections[i][1] = heading
    THEN [i \in 1..Len(sections) |->
            IF sections[i][1] = heading THEN <<heading, content>> ELSE sections[i]]
    ELSE Append(sections, <<heading, content>>)

\* what is stored under a heading: "\n".join(current_content).strip()
section_text(current_content) == strip(join(current_content))

\* the loop over the body's lines; a heading is "current" when it is not ""
RECURSIVE scan_sections(_, _, _, _)
scan_sections(lines, current_heading, current_content, sections) ==
    IF Len(lines) = 0
    THEN IF current_heading # <<>>
         THEN dict_set(sections, current_heading, section_text(current_content))
         ELSE sections
    ELSE LET line == lines[1] IN
         IF startswith(line, H2)
         THEN scan_sections(Tail(lines), strip(slice_from(line, 3)), <<>>,
                  IF current_heading # <<>>
                  THEN dict_set(sections, current_heading, section_text(current_content))
                  ELSE sections)
         ELSE IF current_heading # <<>>
         THEN scan_sections(Tail(lines), current_heading,
                            Append(current_content, line), sections)
         ELSE scan_sections(Tail(lines), current_heading, current_content, sections)

extract_title(body) == find_title(split(body))

extract_sections(body) == scan_sections(split(body), <<>>, <<>>, <<>>)

\* dict.get(heading, "") on the pairs
get_section(sections, heading) ==
    IF \E i \in 1..Len(sections) : sections[i][1] = heading
    THEN sections[CHOOSE i \in 1..Len(sections) : sections[i][1] = heading][2]
    ELSE <<>>

section_keys(sections) == [i \in 1..Len(sections) |-> sections[i][1]]

----------------------------------------------------------------------------
(* parser.py: write_section *)

\* the index after the closing delimiter, 0 when the first line is no
\* delimiter or no later line is one
\* find_close that takes a line for the delimiter only when it is exactly
\* "---", surrounding whitespace not trimmed
RECURSIVE find_close_exact(_, _)
find_close_exact(lines, i) ==
    IF i >= Len(lines) THEN -1
    ELSE IF lines[i + 1] = DELIM THEN i
    ELSE find_close_exact(lines, i + 1)

\* find_close that runs to the last delimiter line instead of the first
find_close_last(lines, i) ==
    LET hits == {j \in i..(Len(lines) - 1) : strip(lines[j + 1]) = DELIM}
    IN  IF hits = {} THEN -1 ELSE CHOOSE j \in hits : \A m \in hits : m <= j

RECURSIVE find_close(_, _)
find_close(lines, i) ==
    IF i >= Len(lines) THEN -1
    ELSE IF strip(lines[i + 1]) = DELIM THEN i
    ELSE find_close(lines, i + 1)

section_body_start(lines) ==
    IF Len(lines) > 0 /\ strip(lines[1]) = DELIM
    THEN LET e == find_close(lines, 1) IN IF e = -1 THEN 0 ELSE e + 1
    ELSE 0

\* find_section without its end boundary: the section runs to the end of file
find_section_to_eof(lines, i, heading, section_start) ==
    IF \E j \in i..(Len(lines) - 1) :
           startswith(lines[j + 1], H2) /\ strip(slice_from(lines[j + 1], 3)) = heading
    THEN <<CHOOSE j \in i..(Len(lines) - 1) :
               /\ startswith(lines[j + 1], H2)
               /\ strip(slice_from(lines[j + 1], 3)) = heading
               /\ \A m \in i..(j - 1) :
                      ~(startswith(lines[m + 1], H2)
                        /\ strip(slice_from(lines[m + 1], 3)) = heading),
           Len(lines)>>
    ELSE <<section_start, Len(lines)>>

\* the loop that finds the target section: <<section_start, section_end>>
RECURSIVE find_section(_, _, _, _)
find_section(lines, i, heading, section_start) ==
    IF i >= Len(lines) THEN <<section_start, Len(lines)>>
    ELSE IF startswith(lines[i + 1], H2)
    THEN IF section_start >= 0
         THEN <<section_start, i>>
         ELSE IF strip(slice_from(lines[i + 1], 3)) = heading
         THEN find_section(lines, i + 1, heading, i)
         ELSE find_section(lines, i + 1, heading, section_start)
    ELSE find_section(lines, i + 1, heading, section_start)

\* the lines that replace an existing section
section_replacement(heading_line, new_content) ==
    <<heading_line, <<>>>>
        \o (IF strip(new_content) # <<>> THEN split(new_content) ELSE <<>>)
        \o << <<>> >>

\* the text with a new section appended
section_appended(text, heading, new_content) ==
    (IF endswith(text, <<NL>>) THEN text ELSE text \o <<NL>>)
        \o <<NL>> \o H2 \o heading \o <<NL, NL>> \o new_content \o <<NL>>

\* the file's text after write_section(path, heading, new_content)
write_section(text, heading, new_content) ==
    LET lines == split(text)
        found == find_section(lines, section_body_start(lines), heading, -1)
        section_start == found[1]
        section_end == found[2]
    IN  IF section_start >= 0
        THEN join(lines_upto(lines, section_start)
                  \o section_replacement(lines[section_start + 1], new_content)
                  \o lines_from(lines, section_end))
        ELSE section_appended(text, heading, new_content)

----------------------------------------------------------------------------
(* screens/project.py: ProjectScreen._write_yaml *)

\* the freshly formatted line: the value quoted when it holds a space
format_field(key, value) ==
    IF contains(value, SP)
    THEN key \o <<":", " ", "\"">> \o value \o <<"\"">>
    ELSE key \o <<":", " ">> \o value

\* find_key that does not stop at the closing delimiter: the first "key:"
\* line after the opening delimiter, wherever it is
find_key_past_close(lines, i, key, in_frontmatter) ==
    LET opened(j) == \E m \in 0..(j - 1) : strip(lines[m + 1]) = DELIM
        hit(j) == /\ opened(j) /\ strip(lines[j + 1]) # DELIM
                  /\ startswith(lines[j + 1], key \o <<":">>)
        closes == {j \in 0..(Len(lines) - 1) : strip(lines[j + 1]) = DELIM /\ opened(j)}
    IN  IF \E j \in 0..(Len(lines) - 1) : hit(j)
        THEN [key_line |-> CHOOSE j \in 0..(Len(lines) - 1) :
                               hit(j) /\ \A m \in 0..(j - 1) : ~hit(m),
              frontmatter_end |-> -1]
        ELSE IF closes # {}
        THEN [key_line |-> -1,
              frontmatter_end |-> CHOOSE j \in closes : \A m \in closes : j <= m]
        ELSE [key_line |-> -1, frontmatter_end |-> -1]

\* the loop over the lines: [key_line, frontmatter_end], -1 when not set
RECURSIVE find_key(_, _, _, _)
find_key(lines, i, key, in_frontmatter) ==
    IF i >= Len(lines) THEN [key_line |-> -1, frontmatter_end |-> -1]
    ELSE IF strip(lines[i + 1]) = DELIM
    THEN IF ~in_frontmatter
         THEN find_key(lines, i + 1, key, TRUE)
         ELSE [key_line |-> -1, frontmatter_end |-> i]
    ELSE IF in_frontmatter /\ startswith(lines[i + 1], key \o <<":">>)
    THEN [key_line |-> i, frontmatter_end |-> -1]
    ELSE find_key(lines, i + 1, key, in_frontmatter)

\* while lines[key_line + 1] starts "- ": lines.pop(key_line + 1)
RECURSIVE pop_items(_, _)
pop_items(lines, key_line) ==
    IF key_line + 1 < Len(lines) /\ startswith(lines[key_line + 2], ITEM)
    THEN pop_items(lines_upto(lines, key_line + 1) \o lines_from(lines, key_line + 2),
                   key_line)
    ELSE lines

\* lines[key_line] = formatted, then the list items after it removed
replace_key(lines, key_line, formatted) ==
    pop_items([lines EXCEPT ![key_line + 1] = formatted], key_line)

\* insert_key that puts the line after the closing delimiter
insert_key_after(lines, frontmatter_end, formatted) ==
    lines_upto(lines, frontmatter_end + 1) \o <<formatted>>
        \o lines_from(lines, frontmatter_end + 1)

\* lines.insert(frontmatter_end, formatted)
insert_key(lines, frontmatter_end, formatted) ==
    lines_upto(lines, frontmatter_end) \o <<formatted>>
        \o lines_from(lines, frontmatter_end)

\* the file's text after _write_yaml(key, value) on an existing overview file
write_yaml(text, key, value) ==
    LET lines == split(text)
        formatted == format_field(key, value)
        found == find_key(lines, 0, key, FALSE)
    IN  IF found.key_line >= 0
        THEN join(replace_key(lines, found.key_line, formatted))
        ELSE IF found.frontmatter_end > 0
        THEN join(insert_key(lines, found.frontmatter_end, formatted))
        ELSE join(lines)

----------------------------------------------------------------------------
(* yaml.safe_load, as parser.py line 97 calls it, on the block-style subset *)
(* the frontmatter of an overview file is written in: a mapping at column  *)
(* 0 whose values are plain or quoted scalars, null, flow lists on one     *)
(* line, or block lists ("- item" lines, indented or not).  Tags, anchors, *)
(* block scalars, nested mappings and escapes are outside the subset.      *)
(* A value is [t, s, items]: t its Python type, s its str(), items the     *)
(* elements of a list.                                                     *)

Digits == {"0", "1", "2", "3", "4", "5", "6", "7", "8", "9"}

DigitVal(c) ==
    CASE c = "0" -> 0 [] c = "1" -> 1 [] c = "2" -> 2 [] c = "3" -> 3
      [] c = "4" -> 4 [] c = "5" -> 5 [] c = "6" -> 6 [] c = "7" -> 7
      [] c = "8" -> 8 [] c = "9" -> 9

V(t, s) == [t |-> t, s |-> s, items |-> <<>>]
VList(items) == [t |-> "list", s |-> <<>>, items |-> items]
VNull == V("null", <<"N", "o", "n", "e">>)

\* the resolver's implicit null and bool scalars (YAML 1.1)
NullWords == {<<>>, <<"~">>, <<"n", "u", "l", "l">>, <<"N", "u", "l", "l">>,
              <<"N", "U", "L", "L">>}
TrueWords == {<<"y", "e", "s">>, <<"Y", "e", "s">>, <<"t", "r", "u", "e">>,
              <<"T", "r", "u", "e">>, <<"o", "n">>, <<"O", "n">>}
FalseWords == {<<"n", "o">>, <<"N", "o">>, <<"f", "a", "l", "s", "e">>,
               <<"F", "a", "l", "s", "e">>, <<"o", "f", "f">>, <<"O", "f", "f">>}

\* the resolver's int pattern, decimal form: 0 | [1-9][0-9]*
is_int(s) ==
    /\ Len(s) > 0
    /\ \A i \in 1..Len(s) : s[i] \in Digits
    /\ (s[1] = "0" => Len(s) = 1)

\* the resolver's timestamp pattern, date form: dddd-dd-dd
is_date_shape(s) ==
    /\ Len(s) = 10
    /\ \A i \in {1, 2, 3, 4, 6, 7, 9, 10} : s[i] \in Digits
    /\ s[5] = "-" /\ s[8] = "-"

\* datetime.date(year, month, day) accepts the fields
date_ok(s) ==
    LET year == 1000 * DigitVal(s[1]) + 100 * DigitVal(s[2])
                    + 10 * DigitVal(s[3]) + DigitVal(s[4])
        month == 10 * DigitVal(s[6]) + DigitVal(s[7])
        day == 10 * DigitVal(s[9]) + DigitVal(s[10])
        leap == year % 4 = 0 /\ (year % 100 # 0 \/ year % 400 = 0)
        dim == IF month \in {4, 6, 9, 11} THEN 30
               ELSE IF month = 2 THEN (IF leap THEN 29 ELSE 28)
               ELSE 31
    IN  year >= 1 /\ month \in 1..12 /\ day \in 1..dim

\* what the constructor makes of a plain scalar; t = "ValueError" when the
\* timestamp constructor raises it (a date-shaped scalar that is no date)
resolve_plain(s) ==
    IF s \in NullWords THEN VNull
    ELSE IF s \in TrueWords THEN V("bool", <<"T", "r", "u", "e">>)
    ELSE IF s \in FalseWords THEN V("bool", <<"F", "a", "l", "s", "e">>)
    ELSE IF is_int(s) THEN V("int", s)
    ELSE IF is_date_shape(s) THEN (IF date_ok(s) THEN V("date", s) ELSE V("ValueError", s))
    ELSE V("str", s)

\* number of leading spaces
RECURSIVE indent_of(_)
indent_of(line) ==
    IF Len(line) > 0 /\ line[1] = SP THEN 1 + indent_of(Tail(line)) ELSE 0

is_blank(line) == strip(line) = <<>>
is_comment(line) == startswith(lstrip(line), <<"#">>)
is_entry(c) == c = <<"-">> \/ startswith(c, ITEM)

\* 1-based place of the ":" that ends a simple key (followed by a space or
\* the end of the line), 0 when there is none
key_colon(c) ==
    LET ok(i) == c[i] = ":" /\ (i = Len(c) \/ c[i + 1] = SP)
    IN  IF \E i \in 1..Len(c) : ok(i)
        THEN CHOOSE i \in 1..Len(c) : ok(i) /\ \A j \in 1..(i - 1) : ~ok(j)
        ELSE 0

\* the text before a " #" comment, right-trimmed
cut_comment(s) ==
    LET at(i) == s[i] = SP /\ s[i + 1] = "#"
    IN  IF \E i \in 1..(Len(s) - 1) : at(i)
        THEN rstrip(SubSeq(s, 1, (CHOOSE i \in 1..(Len(s) - 1) :
                                     at(i) /\ \A j \in 1..(i - 1) : ~at(j)) - 1))
        ELSE rstrip(s)

\* 1-based place of the first q after the first character, 0 when none
closing_quote(s, q) ==
    IF \E i \in 2..Len(s) : s[i] = q
    THEN CHOOSE i \in 2..Len(s) : s[i] = q /\ \A j \in 2..(i - 1) : s[j] # q
    ELSE 0

\* the comma-separated plain items of a one-line flow list's inside
RECURSIVE flow_items(_)
flow_items(s) ==
    IF strip(s) = <<>> THEN <<>>
    ELSE IF ~contains(s, ",") THEN <<V("plain", strip(s))>>
    ELSE LET i == CHOOSE i \in 1..Len(s) : s[i] = "," /\ \A j \in 1..(i - 1) : s[j] # ","
         IN  <<V("plain", strip(SubSeq(s, 1, i - 1)))>>
                 \o flow_items(SubSeq(s, i + 1, Len(s)))

\* A scalar or flow node that starts a line's value: [ok, v, open]; v is
\* unresolved ("plain") when plain, open when a next line may continue it.
scan_node(text) ==
    LET c == lstrip(text) IN
    IF c = <<>> \/ c[1] = "#"
    THEN [ok |-> TRUE, v |-> V("empty", <<>>), open |-> FALSE]
    ELSE IF c[1] = "\"" \/ c[1] = "'"
    THEN LET e == closing_quote(c, c[1]) IN
         IF e = 0 THEN [ok |-> FALSE, v |-> VNull, open |-> FALSE]
         ELSE LET rest == lstrip(SubSeq(c, e + 1, Len(c))) IN
              IF rest = <<>> \/ (rest[1] = "#" /\ e < Len(c) /\ c[e + 1] = SP)
              THEN [ok |-> TRUE, v |-> V("str", SubSeq(c, 2, e - 1)), open |-> FALSE]
              ELSE [ok |-> FALSE, v |-> VNull, open |-> FALSE]
    ELSE IF c[1] = "["
    THEN LET f == cut_comment(c) IN
         IF f[Len(f)] = "]" /\ ~contains(SubSeq(f, 2, Len(f) - 1), "[")
                            /\ ~contains(SubSeq(f, 2, Len(f) - 1), "]")
         THEN [ok |-> TRUE, v |-> VList(flow_items(SubSeq(f, 2, Len(f) - 1))),
               open |-> FALSE]
         ELSE [ok |-> FALSE, v |-> VNull, open |-> FALSE]
    ELSE IF c[1] = "{"
    THEN IF cut_comment(c) = <<"{", "}">>
         THEN [ok |-> TRUE, v |-> V("dict", <<"{", "}">>), open |-> FALSE]
         ELSE [ok |-> FALSE, v |-> VNull, open |-> FALSE]
    ELSE IF key_colon(cut_comment(c)) # 0
    THEN [ok |-> FALSE, v |-> VNull, open |-> FALSE]
    ELSE [ok |-> TRUE, v |-> V("plain", cut_comment(c)), open |-> cut_comment(c) = rstrip(c)]

\* The loader's state while it reads the lines of a block mapping:
\*   pairs    the <<key, value>> pairs read so far, in order
\*   key, val the pair being read (has = FALSE before the first key)
\*   mode     "scalar": val is complete or a plain scalar that may continue;
\*            "pending": the key line held no value; "seq": val is a block list
\*   seqind   the column of the list's "- " entries
\*   open     the last plain scalar may continue on a more indented line
\*   gap      blank lines since that scalar (they fold to line breaks)
\*   err      the scanner or parser raised a YAMLError
YamlStart ==
    [pairs |-> <<>>, has |-> FALSE, key |-> <<>>, val |-> VNull, mode |-> "scalar",
     seqind |-> 0, open |-> FALSE, gap |-> 0, err |-> FALSE]

yaml_fail(st) == [st EXCEPT !.err = TRUE]

\* the pair being read is finished
yaml_close(st) ==
    IF st.has THEN Append(st.pairs, <<st.key, st.val>>) ELSE st.pairs

RECURSIVE breaks(_)
breaks(n) == IF n = 0 THEN <<>> ELSE <<NL>> \o breaks(n - 1)

\* line folding of a multi-line plain scalar
fold(s, gap, more) == s \o (IF gap = 0 THEN <<SP>> ELSE breaks(gap)) \o more

\* a more indented line continues the open plain scalar
yaml_continue(st, c) ==
    LET more == cut_comment(c)
        still == more = rstrip(c)
    IN  IF key_colon(more) # 0 THEN yaml_fail(st)
        ELSE IF st.mode = "seq"
        THEN LET n == Len(st.val.items)
                 last == st.val.items[n]
             IN  [st EXCEPT !.val.items[n] = V("plain", fold(last.s, st.gap, more)),
                            !.gap = 0, !.open = still]
        ELSE [st EXCEPT !.val = V("plain", fold(st.val.s, st.gap, more)),
                        !.gap = 0, !.open = still]

\* a "- item" line adds an entry to the list of the current key
yaml_entry(st, c, n) ==
    LET node == scan_node(slice_from(c, 1))
        item == IF node.v.t = "empty" THEN V("plain", <<>>) ELSE node.v
        items == IF st.mode = "seq" THEN st.val.items ELSE <<>>
    IN  IF ~node.ok \/ node.v.t \in {"list", "dict"} THEN yaml_fail(st)
        ELSE [st EXCEPT !.val = VList(Append(items, item)), !.mode = "seq",
                        !.seqind = n, !.open = node.open, !.gap = 0]

\* a "key: value" line at column 0 starts the next pair
yaml_key(st, c) ==
    LET t == cut_comment(c)
        at == key_colon(t)
        node == scan_node(SubSeq(c, at + 1, Len(c)))
    IN  IF ~node.ok THEN yaml_fail(st)
        ELSE [st EXCEPT !.pairs = yaml_close(st), !.has = TRUE,
                        !.key = rstrip(SubSeq(t, 1, at - 1)),
                        !.val = IF node.v.t = "empty" THEN VNull ELSE node.v,
                        !.mode = IF node.v.t = "empty" THEN "pending" ELSE "scalar",
                        !.open = node.open, !.gap = 0]

\* the first character of a line that cannot start a simple key
NotKeyStart == {"\"", "'", "[", "]", "{", "}", ",", "#", "&", "*", "!", "|", ">",
                "%", "@"}

is_keyline(c) ==
    /\ ~is_entry(c)
    /\ c[1] \notin NotKeyStart
    /\ key_colon(cut_comment(c)) > 1

\* one line of the mapping
yaml_line(st, line) ==
    LET n == indent_of(line)
        c == lstrip(line)
    IN  IF st.err THEN st
        ELSE IF is_blank(line)
        THEN (IF st.open THEN [st EXCEPT !.gap = st.gap + 1] ELSE st)
        ELSE IF is_comment(line) THEN [st EXCEPT !.open = FALSE]
        ELSE IF n = 0
        THEN IF is_keyline(c) THEN yaml_key(st, c)
             ELSE IF is_entry(c)
                     /\ (st.mode = "pending" \/ (st.mode = "seq" /\ st.seqind = 0))
             THEN yaml_entry(st, c, 0)
             ELSE yaml_fail(st)
        ELSE IF st.mode = "seq" /\ st.seqind > 0 /\ n <= st.seqind
        THEN (IF n = st.seqind /\ is_entry(c) THEN yaml_entry(st, c, n)
              ELSE yaml_fail(st))
        ELSE IF st.open THEN yaml_continue(st, c)
        ELSE IF st.mode = "pending"
        THEN IF is_entry(c) THEN yaml_entry(st, c, n)
             ELSE LET node == scan_node(c) IN
                  \* (a nested mapping is outside the subset)
                  IF ~node.ok \/ is_keyline(c) THEN yaml_fail(st)
                  ELSE [st EXCEPT !.val = node.v, !.mode = "scalar",
                                  !.open = node.open, !.gap = 0]
        ELSE yaml_fail(st)

RECURSIVE yaml_lines(_, _)
yaml_lines(st, lines) ==
    IF Len(lines) = 0 THEN st
    ELSE yaml_lines(yaml_line(st, lines[1]), Tail(lines))

\* the constructor: plain scalars resolved, in a list too
construct(v) ==
    IF v.t = "plain" THEN resolve_plain(v.s)
    ELSE IF v.t = "list"
    THEN VList([i \in 1..Len(v.items) |->
                   IF v.items[i].t = "plain" THEN resolve_plain(v.items[i].s)
                   ELSE v.items[i]])
    ELSE v

construct_raises(v) ==
    \/ v.t = "ValueError"
    \/ \E i \in 1..Len(v.items) : v.items[i].t = "ValueError"

\* the dict the pairs make: a repeated key keeps its last value
pairs_dict(pairs) ==
    {<<pairs[i][1], construct(pairs[i][2])>> : i \in
        {i \in 1..Len(pairs) : \A j \in (i + 1)..Len(pairs) : pairs[j][1] # pairs[i][1]}}

content_lines(lines) == SelectSeq(lines, LAMBDA l : ~is_blank(l) /\ ~is_comment(l))

\* A document that does not start with a mapping key loads when it is one
\* block list, one flow or quoted node, or one plain scalar with the lines
\* that continue it.
other_ok(lines) ==
    LET used == {i \in 1..Len(lines) : ~is_blank(lines[i])}
        content == {i \in used : ~is_comment(lines[i])}
        first == CHOOSE i \in content : \A j \in content : i <= j
        later == {i \in content : i > first}
        n == indent_of(lines[first])
        c == lstrip(lines[first])
        plain(i) == key_colon(cut_comment(lines[i])) = 0
        commented(i) == \E j \in used : j > first /\ j < i /\ is_comment(lines[j])
    IN  IF is_entry(c)
        THEN \A i \in later :
                 \/ indent_of(lines[i]) = n /\ is_entry(lstrip(lines[i]))
                 \/ indent_of(lines[i]) > n /\ plain(i) /\ ~commented(i)
        ELSE IF c[1] \in {"{", "[", "\"", "'"}
        THEN scan_node(c).ok /\ later = {}
        ELSE \A i \in later : plain(i) /\ ~commented(i)

constructed(pairs) ==
    IF \E i \in 1..Len(pairs) : construct_raises(construct(pairs[i][2]))
    THEN [kind |-> "ValueError", dict |-> {}]
    ELSE [kind |-> "dict", dict |-> pairs_dict(pairs)]

\* what the loader's final state st loads as
loaded_mapping(st) ==
    IF st.err THEN [kind |-> "YAMLError", dict |-> {}] ELSE constructed(yaml_close(st))

\* yaml.safe_load(yaml_text): [kind, dict]
\*   "dict"        a mapping was loaded
\*   "other"       None, a scalar or a list was loaded, or
\*   "YAMLError"   the text is no YAML
\*   "ValueError"  the constructor raised ValueError (no YAMLError)
\* The mapping's keys stand at column 0 and ints are decimal.
safe_load(yaml_text) ==
    LET lines == split(yaml_text)
        content == content_lines(lines)
    IN  IF Len(content) = 0 THEN [kind |-> "other", dict |-> {}]
        ELSE IF content = << <<"{", "}">> >> THEN [kind |-> "dict", dict |-> {}]
        ELSE IF indent_of(content[1]) # 0 \/ ~is_keyline(content[1])
        THEN [kind |-> IF other_ok(lines) THEN "other" ELSE "YAMLError", dict |-> {}]
        ELSE loaded_mapping(yaml_lines(YamlStart, lines))

----------------------------------------------------------------------------
(* parser.py: parse_document, ParsedDocument *)

\* a ParsedDocument; raised names the exception parse_document let through
ParsedDocument(raised, frontmatter, body) ==
    [raised |-> raised, frontmatter |-> frontmatter, body |-> body,
     sections |-> extract_sections(body), title |-> extract_title(body)]

NoException == "none"

\* the document made of what yaml.safe_load returned and of the body
loaded_document(parsed, body) ==
    IF parsed.kind = "ValueError"
    THEN [raised |-> "ValueError", frontmatter |-> {}, body |-> <<>>,
          sections |-> <<>>, title |-> <<>>]
    ELSE ParsedDocument(NoException, IF parsed.kind = "dict" THEN parsed.dict ELSE {}, body)

\* parse_document(path) on an existing, readable file holding text
parse_document(text) ==
    LET lines == split(text) IN
    IF Len(lines) = 0 \/ strip(lines[1]) # DELIM
    THEN ParsedDocument(NoException, {}, text)
    ELSE LET end_idx == find_close(lines, 1) IN
         IF end_idx = -1
         THEN ParsedDocument(NoException, {}, text)
         ELSE loaded_document(safe_load(join(slice(lines, 1, end_idx))),
                              join(lines_from(lines, end_idx + 1)))

\* frontmatter.get(key, ""): the value under key, "" when absent
fm_get(frontmatter, key) ==
    IF \E p \in frontmatter : p[1] = key
    THEN (CHOOSE p \in frontmatter : p[1] = key)[2]
    ELSE V("str", <<>>)

\* get that does not trim the value
doc_get_untrimmed(d, key, default) ==
    LET val == fm_get(d.frontmatter, key) IN
    IF val.t = "null" THEN default
    ELSE IF val.t = "list"
    THEN (IF Len(val.items) > 0 THEN val.items[1].s ELSE default)
    ELSE IF val.s # <<>> THEN val.s ELSE default

\* ParsedDocument.get(key, default)
doc_get(d, key, default) ==
    LET val == fm_get(d.frontmatter, key) IN
    IF val.t = "null" \/ (val.t = "str" /\ val.s = <<"n", "u", "l", "l">>) THEN default
    ELSE IF val.t = "list"
    THEN (IF Len(val.items) > 0 THEN val.items[1].s ELSE default)
    ELSE IF strip(val.s) # <<>> THEN strip(val.s) ELSE default

----------------------------------------------------------------------------
(* Files the model starts from: every text made of at most MaxPieces       *)
(* pieces, in any order, joined by newlines.                               *)

Docs(pieces) ==
    UNION {{join(s) : s \in [1..m -> pieces]} : m \in 0..MaxPieces}

KeyK == <<"k">>
LineKA == <<"k", ":", " ", "a">>
LineK == <<"k", ":">>
LineJB == <<"j", ":", " ", "b">>
LineItem == <<"-", " ", "a">>
LineItemIndented == <<" ", " ", "-", " ", "a">>
LineX == <<"x">>
LineDelimSpaced == <<" ", "-", "-", "-", " ">>
LineOpenFlow == <<"k", ":", " ", "[">>
LineBadDate == <<"k", ":", " ", "2", "0", "2", "2", "-", "0", "2", "-", "3", "0">>
LineTitle == <<"#", " ", "T">>
HeadA == <<"#", "#", " ", "A">>
HeadB == <<"#", "#", " ", "B">>
HeadEmpty == <<"#", "#", " ">>
Frontmatter == DELIM \o <<NL>> \o LineKA \o <<NL>> \o DELIM
Unclosed == DELIM \o <<NL>> \o LineKA
SectionA == HeadA \o <<NL>> \o LineX
SectionB == HeadB \o <<NL, "y">>

\* write_section's files, headings and contents
SectionPieces == {Frontmatter, Unclosed, SectionA, SectionB, LineTitle, <<>>}
Headings == {<<"A">>}
Contents == {<<>>, <<"n">>, <<" ", "n", NL>>, HeadB \o <<NL, "z">>, DELIM, LineTitle}

\* _write_yaml's files, keys and values
FieldPieces == {DELIM, LineKA, LineK, LineItem, LineItemIndented, LineJB, LineX}
Keys == {KeyK}
Values == {<<"b">>, <<"b", " ", "c">>}

\* parse_document's files: frontmatter delimiters, YAML that loads, YAML
\* that does not, and bodies with headings
LineSpaced == <<" ", "y", " ">>
ParsePieces == {DELIM, LineDelimSpaced, LineKA, LineOpenFlow, LineBadDate, LineX, HeadA}
BodyPieces == {HeadA, HeadB, HeadEmpty, LineX, LineSpaced, LineTitle, <<>>}

NoOp == [name |-> "none", a |-> <<>>, b |-> <<>>]
NoDoc == [raised |-> "unparsed", frontmatter |-> {}, body |-> <<>>,
          sections |-> <<>>, title |-> <<>>]
NoGiven == [F |-> {}, B |-> <<>>, set |-> FALSE]

\* a projects_path that does not exist
NoRoot == [exists |-> FALSE, children |-> <<>>]
NoOut == [of |-> "none"]
StartOfDay == [day |-> 1, minute |-> 0]

\* a path that does not exist
NoPath == [kind |-> "absent", text |-> <<>>]
NoScreen == [mounted |-> FALSE]
NoCall == [of |-> "none"]

\* the part of the state only the screens and the stepwise calls use
LiveIdle ==
    /\ path = NoPath
    /\ screen = NoScreen
    /\ call = NoCall

\* the part of the state an operation on the overview file does not use
EnvIdle ==
    /\ project_md = <<>>
    /\ root = NoRoot
    /\ journal = <<>>
    /\ now = StartOfDay
    /\ out = NoOut
    /\ LiveIdle

----------------------------------------------------------------------------
(* Operations *)

\* write_section(path, heading, new_content)
WriteSection(heading, new_content) ==
    /\ writes < MaxWrites
    /\ file' = write_section(file, heading, new_content)
    /\ prev' = file
    /\ op' = [name |-> "write_section", a |-> heading, b |-> new_content]
    /\ writes' = writes + 1
    /\ UNCHANGED <<doc, given>>
    /\ UNCHANGED envvars
    /\ UNCHANGED livevars

\* ProjectScreen._write_yaml(key, value)
WriteField(key, value) ==
    /\ writes < MaxWrites
    /\ file' = write_yaml(file, key, value)
    /\ prev' = file
    /\ op' = [name |-> "write_field", a |-> key, b |-> value]
    /\ writes' = writes + 1
    /\ UNCHANGED <<doc, given>>
    /\ UNCHANGED envvars
    /\ UNCHANGED livevars

\* parse_document(path)
Parse ==
    /\ doc' = parse_document(file)
    /\ UNCHANGED <<file, prev, op, writes, given>>
    /\ UNCHANGED envvars
    /\ UNCHANGED livevars

InitFile(docs) ==
    /\ file \in docs
    /\ prev = file
    /\ op = NoOp
    /\ writes = 0
    /\ doc = NoDoc
    /\ given = NoGiven
    /\ EnvIdle

InitSection == InitFile(Docs(SectionPieces))

NextSection == \E h \in Headings, c \in Contents : WriteSection(h, c)

SpecSection == InitSection /\ [][NextSection]_vars

----------------------------------------------------------------------------
(* Claims about write_section (SpecSection) *)

Wrote(name) == op.name = name

\* <<section_start, section_end>> of the target section in a text
Target(text, heading) ==
    LET lines == split(text)
    IN  find_section(lines, section_body_start(lines), heading, -1)

\* a line of the text satisfies P
AnyLine(text, P(_)) == \E i \in 1..Len(split(text)) : P(split(text)[i])

IsH2(line) == startswith(line, H2)
IsH1(line) == startswith(line, H1)
IsDelim(line) == strip(line) = DELIM

\* the headings either document has, but for one
OtherHeadings(d0, d1, heading) ==
    ({d0.sections[i][1] : i \in 1..Len(d0.sections)}
        \cup {d1.sections[i][1] : i \in 1..Len(d1.sections)}) \ {heading}

HasSection(d, h) == \E i \in 1..Len(d.sections) : d.sections[i][1] = h

SameSection(d0, d1, h) ==
    /\ HasSection(d0, h) <=> HasSection(d1, h)
    /\ get_section(d0.sections, h) = get_section(d1.sections, h)

\* the lines up to and with the target heading line, and from the next
\* "## " line on, are the file's as they were; with no target, the old text
\* is a prefix of the new
SectionLineFrame ==
    LET l0 == split(prev)
        l1 == split(file)
        t == Target(prev, op.a)
    IN  IF t[1] >= 0
        THEN /\ Len(l1) >= t[1] + 1 + Len(l0) - t[2]
             /\ lines_upto(l1, t[1] + 1) = lines_upto(l0, t[1] + 1)
             /\ lines_from(l1, Len(l1) - (Len(l0) - t[2])) = lines_from(l0, t[2])
        ELSE startswith(file, prev)

\* the replaced section's lines, heading line excluded
ReplacedLines ==
    LET t == Target(prev, op.a)
    IN  IF t[1] >= 0 THEN slice(split(prev), t[1] + 1, t[2]) ELSE <<>>

\* C2 as claimed: write_section leaves every line before the target heading,
\* the frontmatter, the title and every other section as they were, for every
\* file, heading and newContent.
C2_FrameAsClaimed ==
    Wrote("write_section") =>
        LET d0 == parse_document(prev)
            d1 == parse_document(file)
        IN  /\ SectionLineFrame
            /\ d1.frontmatter = d0.frontmatter
            /\ d1.title = d0.title
            /\ \A h \in OtherHeadings(d0, d1, op.a) : SameSection(d0, d1, h)

\* C2, amended: write_section keeps every line up to the target heading line
\* and from the next "## " line on (the whole old text when the section is
\* appended); the frontmatter and every other section parse the same provided
\* newContent holds no "## " line and no "---" line; the title is the same
\* provided neither newContent nor the replaced section holds a "# " line.
C2_Frame ==
    Wrote("write_section") =>
        LET d0 == parse_document(prev)
            d1 == parse_document(file)
        IN  /\ SectionLineFrame
            /\ ~AnyLine(op.b, IsDelim) => d1.frontmatter = d0.frontmatter
            /\ ~AnyLine(op.b, IsH2) /\ ~AnyLine(op.b, IsDelim) =>
                   \A h \in OtherHeadings(d0, d1, op.a) : SameSection(d0, d1, h)
            /\ (/\ ~AnyLine(op.b, IsH1) /\ ~AnyLine(op.b, IsDelim)
                /\ \A i \in 1..Len(ReplacedLines) : ~IsH1(ReplacedLines[i]))
                   => d1.title = d0.title

\* C2 witness: a section between a frontmatter block and another section
\* with content was replaced by new content.
C2_Witness ==
    /\ Wrote("write_section")
    /\ Target(prev, op.a)[1] >= 0
    /\ op.b = <<"n">>
    /\ file # prev
    /\ parse_document(prev).frontmatter # {}
    /\ parse_document(prev).title # <<>>
    /\ \E h \in OtherHeadings(parse_document(prev), parse_document(file), op.a) :
           get_section(parse_document(file).sections, h) # <<>>

\* the body holds a "## heading" line
HeadingInBody(text, heading) ==
    LET lines == split(text)
    IN  \E i \in (section_body_start(lines) + 1)..Len(lines) :
            IsH2(lines[i]) /\ strip(slice_from(lines[i], 3)) = heading

\* C5 as claimed (for a newContent that is already trimmed, as the parser
\* stores it, and holds no heading or delimiter line of its own): when the body holds a "## heading" line, after
\* write_section(path, heading, newContent) the document reads back
\* sections[heading] = newContent.
C5_ReadBack ==
    (/\ Wrote("write_section")
     /\ HeadingInBody(prev, op.a)
     /\ strip(op.b) = op.b
     /\ ~AnyLine(op.b, IsH2) /\ ~AnyLine(op.b, IsDelim))
        => get_section(parse_document(file).sections, op.a) = op.b

InitField == InitFile(Docs(FieldPieces))

NextField == \E k \in Keys, v \in Values : WriteField(k, v)

SpecField == InitField /\ [][NextField]_vars

----------------------------------------------------------------------------
(* Claims about _write_yaml (SpecField) *)

\* the text has a frontmatter block as parse_document finds it: a first
\* line that is a delimiter and a later one; the index of the closing line
FrontmatterEnd(text) ==
    LET lines == split(text)
        closes == {j \in 1..(Len(lines) - 1) : strip(lines[j + 1]) = DELIM}
    IN  IF strip(lines[1]) = DELIM /\ closes # {}
        THEN CHOOSE j \in closes : \A m \in closes : j <= m
        ELSE -1

HasFrontmatter(text) == FrontmatterEnd(text) >= 1

IsKeyLine(line, key) == startswith(line, key \o <<":">>)
IsItemLine(line) == startswith(line, ITEM)

\* the new lines are the old ones with one run [i, j) of them replaced by
\* the formatted line: the run is empty (an insert) or a "key:" line and
\* "- " lines after it; or nothing changed
LinePatch(l0, l1, key, formatted) ==
    \/ l1 = l0
    \/ \E i \in 0..Len(l0) : \E j \in i..Len(l0) :
           /\ l1 = lines_upto(l0, i) \o <<formatted>> \o lines_from(l0, j)
           /\ j > i => IsKeyLine(l0[i + 1], key)
           /\ \A m \in (i + 2)..j : IsItemLine(l0[m])

\* C1 as claimed: for every file content, key and value, _write_yaml is a
\* line-level patch of the key line and its list items, and the body that
\* parse_document returns is the same before and after.
C1_BodyKept ==
    Wrote("write_field") =>
        /\ LinePatch(split(prev), split(file), op.a, format_field(op.a, op.b))
        /\ parse_document(file).body = parse_document(prev).body

\* the first "key:" line strictly inside the frontmatter block, -1 if none
KeyLineInBlock(text, key) ==
    LET lines == split(text)
        e == FrontmatterEnd(text)
        hits == {i \in 1..(e - 1) : IsKeyLine(lines[i + 1], key)}
    IN  IF hits = {} THEN -1 ELSE CHOOSE i \in hits : \A m \in hits : i <= m

\* key: value, the value in double quotes iff it holds a space
FormattedAsClaimed(key, value) ==
    IF \E i \in 1..Len(value) : value[i] = SP
    THEN key \o <<":", " ", "\"">> \o value \o <<"\"">>
    ELSE key \o <<":", " ">> \o value

\* C6: on a document with a frontmatter block, the first "key:" line between
\* the delimiters is replaced in place by the formatted line (the value in
\* double quotes iff it holds a space), every line from the closing delimiter
\* on kept; with no such line the formatted line is inserted right before the
\* closing delimiter; no line outside the block is matched.
C6_ReplaceOrInsert ==
    (Wrote("write_field") /\ HasFrontmatter(prev)) =>
        LET l0 == split(prev)
            l1 == split(file)
            e == FrontmatterEnd(prev)
            i == KeyLineInBlock(prev, op.a)
            formatted == FormattedAsClaimed(op.a, op.b)
        IN  IF i >= 0
            THEN /\ lines_upto(l1, i) = lines_upto(l0, i)
                 /\ l1[i + 1] = formatted
                 /\ \E j \in (i + 1)..e :
                        /\ lines_from(l1, i + 1) = lines_from(l0, j)
                        /\ \A m \in (i + 2)..j : IsItemLine(l0[m])
            ELSE l1 = lines_upto(l0, e) \o <<formatted>> \o lines_from(l0, e)

\* C6 witness: a key line in the block was replaced while a "key:" line of
\* the body stayed.
C6_Witness ==
    /\ Wrote("write_field")
    /\ HasFrontmatter(prev)
    /\ KeyLineInBlock(prev, op.a) >= 0
    /\ file # prev
    /\ contains(op.b, SP)
    /\ \E m \in (FrontmatterEnd(prev) + 2)..Len(split(prev)) :
           IsKeyLine(split(prev)[m], op.a)

KeyLines(text, key) ==
    Cardinality({i \in 1..(FrontmatterEnd(text) - 1) : IsKeyLine(split(text)[i + 1], key)})

\* the line is a list item, indented or not
IsYamlItem(line) == is_entry(lstrip(line))

\* C8 as claimed: when the frontmatter holds the key once and its value is
\* written as a YAML list, after _write_yaml(key, value) no list-item line
\* follows the key line and parse_document(path).get(key) returns value.
C8_ListCollapse ==
    (/\ Wrote("write_field")
     /\ HasFrontmatter(prev)
     /\ KeyLines(prev, op.a) = 1
     /\ fm_get(parse_document(prev).frontmatter, op.a).t = "list")
        => /\ LET l1 == split(file)
                  i == KeyLineInBlock(file, op.a)
              IN  i >= 0 /\ ~IsYamlItem(l1[i + 2])
           /\ doc_get(parse_document(file), op.a, <<>>) = op.b

----------------------------------------------------------------------------
(* Claims about parse_document (SpecParse) *)

InitParse == InitFile(Docs(ParsePieces) \cup Docs(BodyPieces))

NextParse == Parse

SpecParse == InitParse /\ [][NextParse]_vars

Parsed == doc # NoDoc

IsSuffix(s, t) == Len(s) <= Len(t) /\ slice_from(t, Len(t) - Len(s)) = s

\* the text between the delimiter lines of a frontmatter block
BlockText(text) == join(slice(split(text), 1, FrontmatterEnd(text)))

\* the text after the closing delimiter line
AfterBlock(text) == join(lines_from(split(text), FrontmatterEnd(text) + 1))

\* C3 as claimed: when the first line is a delimiter and a later one is too,
\* and the text between them fails to load as YAML or loads to a non-mapping,
\* parse_document does not raise, frontmatter is empty, body is the text
\* after the closing delimiter line, and title and sections come from it.
C3_Tolerant ==
    (/\ Parsed
     /\ HasFrontmatter(file)
     /\ safe_load(BlockText(file)).kind # "dict")
        => /\ doc.raised = NoException
           /\ doc.frontmatter = {}
           /\ doc.body = AfterBlock(file)
           /\ doc.sections = extract_sections(AfterBlock(file))
           /\ doc.title = extract_title(AfterBlock(file))

\* the delimiters as the claim has them: the first line with trailing
\* whitespace trimmed is "---" and a later line is exactly "---"
DelimitedAsClaimed(text) ==
    LET lines == split(text)
    IN  /\ rstrip(lines[1]) = DELIM
        /\ \E j \in 2..Len(lines) : lines[j] = DELIM

\* C4 as claimed: unless the first line, trailing whitespace trimmed, is
\* "---" and a later line is exactly "---", body is the whole text and
\* frontmatter is empty; body is always a suffix of the text.
C4_BodyAsClaimed ==
    (Parsed /\ doc.raised = NoException) =>
        /\ ~DelimitedAsClaimed(file) => (doc.body = file /\ doc.frontmatter = {})
        /\ IsSuffix(doc.body, file)

\* C4: unless the first line and a later line, each with leading and
\* trailing whitespace trimmed, are "---", body is the whole text and
\* frontmatter is empty; otherwise body is the text after the first such
\* later line; whenever a document is returned body is a suffix of the text.
C4_Body ==
    (Parsed /\ doc.raised = NoException) =>
        /\ ~HasFrontmatter(file) => (doc.body = file /\ doc.frontmatter = {})
        /\ HasFrontmatter(file) => doc.body = AfterBlock(file)
        /\ IsSuffix(doc.body, file)

\* C4 witness: a block whose delimiters carry surrounding whitespace was
\* stripped and its mapping loaded.
C4_Witness ==
    /\ Parsed
    /\ HasFrontmatter(file)
    /\ ~DelimitedAsClaimed(file)
    /\ doc.frontmatter # {}
    /\ doc.body # file
    /\ doc.body # <<>>

\* the body's level-2 heading lines, 1-based, and what the claim reads off
\* them
HeadLines(lines) == {i \in 1..Len(lines) : startswith(lines[i], H2)}
HeadText(lines, i) == strip(slice_from(lines[i], 3))
NextHead(lines, i) ==
    LET later == {j \in HeadLines(lines) : j > i}
    IN  IF later = {} THEN Len(lines) + 1
        ELSE CHOOSE j \in later : \A m \in later : j <= m
Between(lines, i) == join(slice(lines, i, NextHead(lines, i) - 1))
FirstHead(lines, h) ==
    CHOOSE i \in HeadLines(lines) :
        /\ HeadText(lines, i) = h
        /\ \A m \in HeadLines(lines) : HeadText(lines, m) = h => i <= m
LastHead(lines, h) ==
    CHOOSE i \in HeadLines(lines) :
        /\ HeadText(lines, i) = h
        /\ \A m \in HeadLines(lines) : HeadText(lines, m) = h => m <= i

\* the keys are the heading texts in T, each once, in order of first
\* appearance, and each maps to Stored(last line with that heading text)
SectionsAre(sections, lines, T, Stored(_)) ==
    /\ {sections[p][1] : p \in 1..Len(sections)} = T
    /\ \A p, q \in 1..Len(sections) :
           p < q => FirstHead(lines, sections[p][1]) < FirstHead(lines, sections[q][1])
    /\ \A p \in 1..Len(sections) :
           sections[p][2] = Stored(LastHead(lines, sections[p][1]))

\* C10 as claimed: sections maps each level-2 heading text to the verbatim
\* text between that heading line and the next one or the end of the body,
\* the last occurrence of a heading text winning, keys in order of first
\* appearance.
C10_SectionsAsClaimed ==
    (Parsed /\ doc.raised = NoException) =>
        LET lines == split(doc.body)
            verbatim(i) == Between(lines, i)
        IN  SectionsAre(doc.sections, lines,
                        {HeadText(lines, i) : i \in HeadLines(lines)}, verbatim)

\* C10: sections maps each non-empty level-2 heading text to the text
\* between that heading line and the next one or the end of the body with
\* leading and trailing whitespace trimmed, the last occurrence of a heading
\* text winning, keys in order of first appearance; lines before the first
\* heading line and lines under a heading with empty text are in no section.
C10_Sections ==
    (Parsed /\ doc.raised = NoException) =>
        LET lines == split(doc.body)
            trimmed(i) == strip(Between(lines, i))
        IN  SectionsAre(doc.sections, lines,
                        {HeadText(lines, i) : i \in HeadLines(lines)} \ {<<>>}, trimmed)

\* C10 witness: a heading text occurs twice with different content and
\* another heading comes between.
C10_Witness ==
    /\ Parsed
    /\ LET lines == split(doc.body)
       IN  /\ Len(doc.sections) = 2
           /\ \E h \in {doc.sections[1][1]} :
                  /\ FirstHead(lines, h) < FirstHead(lines, doc.sections[2][1])
                  /\ FirstHead(lines, doc.sections[2][1]) < LastHead(lines, h)
                  /\ doc.sections[1][2] # <<>>
                  /\ doc.sections[1][2] # strip(Between(lines, FirstHead(lines, h)))

----------------------------------------------------------------------------
(* The round trip through a serialized frontmatter block (SpecRoundTrip) *)

KeyJ == <<"j">>
KeyOrder == <<KeyJ, KeyK>>

\* a string the serializer cannot write plain: the loader would read the
\* plain form as something else than this string
needs_quotes(s) ==
    \/ s = <<>>
    \/ resolve_plain(s).t # "str"
    \/ s[1] \in Whitespace \/ s[Len(s)] \in Whitespace
    \/ s[1] \in NotKeyStart
    \/ \E i \in 1..(Len(s) - 1) : (s[i] = ":" /\ s[i + 1] = SP) \/ (s[i] = SP /\ s[i + 1] = "#")
    \/ s[Len(s)] = ":"

\* a scalar in block style
dump_scalar(v) ==
    CASE v.t = "null" -> <<"n", "u", "l", "l">>
      [] v.t = "bool" -> IF v.s = <<"T", "r", "u", "e">> THEN <<"t", "r", "u", "e">>
                         ELSE <<"f", "a", "l", "s", "e">>
      [] v.t = "str" -> IF needs_quotes(v.s) THEN <<"'">> \o v.s \o <<"'">> ELSE v.s
      [] OTHER -> v.s

RECURSIVE dump_items(_)
dump_items(items) ==
    IF Len(items) = 0 THEN <<>>
    ELSE ITEM \o dump_scalar(items[1]) \o <<NL>> \o dump_items(Tail(items))

\* key: value, or key: and its "- " lines, or key: [] for the empty list
dump_pair(key, v) ==
    IF v.t = "list"
    THEN IF Len(v.items) = 0 THEN key \o <<":", " ", "[", "]", NL>>
         ELSE key \o <<":", NL>> \o dump_items(v.items)
    ELSE key \o <<":", " ">> \o dump_scalar(v) \o <<NL>>

\* yaml(F): the mapping in block style, keys sorted, {} when empty
RECURSIVE dump_keys(_, _)
dump_keys(F, keys) ==
    IF Len(keys) = 0 THEN <<>>
    ELSE (IF \E p \in F : p[1] = keys[1]
          THEN dump_pair(keys[1], fm_get(F, keys[1])) ELSE <<>>)
         \o dump_keys(F, Tail(keys))

yaml_dump(F) == IF F = {} THEN <<"{", "}", NL>> ELSE dump_keys(F, KeyOrder)

\* "---\n" + yaml(F) + "---\n" + B
Composed(F, B) == DELIM \o <<NL>> \o yaml_dump(F) \o DELIM \o <<NL>> \o B

\* the mappings and bodies of the round trip
Scalars == {VNull, V("str", <<"a">>), V("str", <<"b", " ", "c">>), V("str", <<"1">>),
            V("int", <<"1">>), V("bool", <<"T", "r", "u", "e">>)}
Lists == {VList(<<>>), VList(<<V("str", <<"a">>), V("str", <<"1">>), VNull>>)}
Mappings ==
    {{<<KeyJ, v>>} : v \in Scalars \cup Lists}
        \cup {{<<KeyJ, v>>, <<KeyK, w>>} : v \in Scalars \cup Lists, w \in Scalars \cup Lists}
        \cup {{}}
RoundTripPieces == {DELIM, LineKA, HeadA, <<>>}

InitRoundTrip ==
    /\ given \in [F : Mappings, B : Docs(RoundTripPieces), set : {TRUE}]
    /\ EnvIdle
    /\ file = Composed(given.F, given.B)
    /\ prev = file
    /\ op = NoOp
    /\ writes = 0
    /\ doc = NoDoc

NextRoundTrip == Parse

SpecRoundTrip == InitRoundTrip /\ [][NextRoundTrip]_vars

----------------------------------------------------------------------------
(* ParsedDocument.get (SpecGet) *)

\* frontmatter lines with the kinds of value get tells apart
LineNull == <<"k", ":", " ", "n", "u", "l", "l">>
LineNullString == <<"k", ":", " ", "'", "n", "u", "l", "l", "'">>
LineEmptyList == <<"k", ":", " ", "[", "]">>
LineItemInt == <<"-", " ", "1">>
LinePadded == <<"k", ":", " ", "'", " ", "a", " ", "'">>
LineEmptyString == <<"k", ":", " ", "'", "'">>
LineTrue == <<"k", ":", " ", "t", "r", "u", "e">>
GetPieces == {LineNull, LineNullString, LineEmptyList, LineK, LineItemInt, LinePadded,
              LineEmptyString, LineTrue}
Defaults == {<<>>, <<"D">>}

\* doc.get(key, default) on the document last parsed
Get(key, default) ==
    /\ doc # NoDoc
    /\ doc.raised = NoException
    /\ out' = [of |-> "get", key |-> key, default |-> default,
               value |-> doc_get(doc, key, default)]
    /\ UNCHANGED <<docvars, project_md, root, journal, now>>
    /\ UNCHANGED livevars

InitGet == InitFile({DELIM \o <<NL>> \o t \o <<NL>> \o DELIM : t \in Docs(GetPieces)})

NextGet == Parse \/ \E k \in {KeyK, KeyJ}, d \in Defaults : Get(k, d)

SpecGet == InitGet /\ [][NextGet]_vars

IsString(s) == DOMAIN s = 1..Len(s) /\ \A i \in 1..Len(s) : s[i] \in STRING

\* C11: get(key, default) is default when the key is absent or its value is
\* null or the string "null"; for a list it is the first element as a
\* string, default when the list is empty; otherwise the value as a string,
\* trimmed, default when that is empty; the result is a string.
C11_Get ==
    out.of = "get" =>
        LET F == doc.frontmatter
            present == \E p \in F : p[1] = out.key
            v == (CHOOSE p \in F : p[1] = out.key)[2]
            claimed ==
                IF ~present THEN out.default
                ELSE IF v.t = "null" \/ v = V("str", <<"n", "u", "l", "l">>)
                THEN out.default
                ELSE IF v.t = "list"
                THEN (IF v.items = <<>> THEN out.default ELSE v.items[1].s)
                ELSE IF strip(v.s) = <<>> THEN out.default
                ELSE strip(v.s)
        IN  out.value = claimed /\ IsString(out.value)

\* C11 witness: get trimmed a padded string value.
C11_Witness ==
    /\ out.of = "get"
    /\ fm_get(doc.frontmatter, out.key) = V("str", <<" ", "a", " ">>)
    /\ out.value = <<"a">>

----------------------------------------------------------------------------
(* merge_documents (SpecMerge) *)

\* "\n\n## {heading}\n{content}"
merged_block(heading, content) == <<NL, NL>> \o H2 \o heading \o <<NL>> \o content

\* the loop over secondary.sections.items(), without the test on the
\* primary's headings
RECURSIVE merge_every(_, _, _)
merge_every(merged, primary_headings, items) ==
    IF Len(items) = 0 THEN merged
    ELSE merge_every(IF strip(items[1][2]) # <<>>
                     THEN merged \o merged_block(items[1][1], items[1][2])
                     ELSE merged,
                     primary_headings, Tail(items))

\* the loop over secondary.sections.items()
RECURSIVE merge_sections(_, _, _)
merge_sections(merged, primary_headings, items) ==
    IF Len(items) = 0 THEN merged
    ELSE merge_sections(IF items[1][1] \notin primary_headings /\ strip(items[1][2]) # <<>>
                        THEN merged \o merged_block(items[1][1], items[1][2])
                        ELSE merged,
                        primary_headings, Tail(items))

merge_documents(primary, secondary) ==
    merge_sections(primary.body,
                   {primary.sections[i][1] : i \in 1..Len(primary.sections)},
                   secondary.sections)

DocsOf(pieces, n) == UNION {{join(t) : t \in [1..m -> pieces]} : m \in 0..n}

MergePieces == {SectionA, SectionB, HeadA, LineX}

\* merge_documents(parse_document(overview), parse_document(project_md))
Merge ==
    /\ out.of = "none"
    /\ out' = [of |-> "merge",
               text |-> merge_documents(parse_document(file), parse_document(project_md))]
    /\ UNCHANGED <<docvars, project_md, root, journal, now>>
    /\ UNCHANGED livevars

InitMerge ==
    /\ file \in DocsOf(MergePieces, MaxSections)
    /\ project_md \in DocsOf(MergePieces, MaxSections)
    /\ prev = file
    /\ op = NoOp
    /\ writes = 0
    /\ doc = NoDoc
    /\ given = NoGiven
    /\ root = NoRoot
    /\ journal = <<>>
    /\ now = StartOfDay
    /\ out = NoOut
    /\ LiveIdle

NextMerge == Merge

SpecMerge == InitMerge /\ [][NextMerge]_vars

RECURSIVE Blocks(_)
Blocks(items) ==
    IF Len(items) = 0 THEN <<>>
    ELSE <<NL, NL>> \o H2 \o items[1][1] \o <<NL>> \o items[1][2] \o Blocks(Tail(items))

InPrimary(heading) ==
    \E i \in 1..Len(parse_document(file).sections) :
        parse_document(file).sections[i][1] = heading

----------------------------------------------------------------------------
(* Projects: models.py (SpecProjects).  The projects directory is a        *)
(* function from the names of its entries to what each entry is: a plain   *)
(* file, or a directory with or without an _OVERVIEW.md of a given text.   *)

Upper == <<"A", "B", "C", "D", "E", "F", "G", "H", "I", "J", "K", "L", "M", "N", "O", "P", "Q", "R", "S", "T", "U", "V", "W", "X", "Y", "Z">>
Lower == <<"a", "b", "c", "d", "e", "f", "g", "h", "i", "j", "k", "l", "m", "n", "o", "p", "q", "r", "s", "t", "u", "v", "w", "x", "y", "z">>

lower_char(c) ==
    IF \E i \in 1..Len(Upper) : Upper[i] = c
    THEN Lower[CHOOSE i \in 1..Len(Upper) : Upper[i] = c]
    ELSE c

\* str.lower()
lower(s) == [i \in 1..Len(s) |-> lower_char(s[i])]

\* code points of the characters that occur in names
ord(c) ==
    CASE c = "." -> 46
      [] c = "A" -> 65
      [] c = "B" -> 66
      [] c = "_" -> 95
      [] c = "a" -> 97
      [] c = "b" -> 98
      [] c = "h" -> 104
      [] c = "r" -> 114
      [] c = "x" -> 120

\* s < t for two str
RECURSIVE str_lt(_, _)
str_lt(s, t) ==
    IF Len(t) = 0 THEN FALSE
    ELSE IF Len(s) = 0 THEN TRUE
    ELSE IF s[1] # t[1] THEN ord(s[1]) < ord(t[1])
    ELSE str_lt(Tail(s), Tail(t))

\* needle in s
is_substring(needle, s) ==
    \E i \in 0..(Len(s) - Len(needle)) : SubSeq(s, i + 1, i + Len(needle)) = needle

\* list.sort / sorted with a key: the stable rearrangement of list into
\* ascending order, element i going after every smaller element and after
\* every equal element that stood before it
sort_list(list, lt(_, _)) ==
    LET pos(i) == 1 + Cardinality({j \in 1..Len(list) :
                                      \/ lt(list[j], list[i])
                                      \/ ~lt(list[i], list[j]) /\ j < i})
    IN  [k \in 1..Len(list) |-> list[CHOOSE i \in 1..Len(list) : pos(i) = k]]

RECURSIVE set_to_list(_)
set_to_list(S) ==
    IF S = {} THEN <<>>
    ELSE LET x == CHOOSE x \in S : TRUE IN <<x>> \o set_to_list(S \ {x})

\* sorted(projects_path.iterdir()), as names
sorted_iterdir(dir) == sort_list(set_to_list(DOMAIN dir.children), str_lt)

\* a table whose second key is in-progress
status_rank_hyphen(status) ==
    IF status \in {<<"a", "c", "t", "i", "v", "e">>, <<"i", "n", "-", "p", "r", "o", "g", "r", "e", "s", "s">>, <<"r", "u", "n", "n", "i", "n", "g">>} THEN 1
    ELSE IF status \in {<<"r", "e", "a", "d", "y">>, <<"s", "t", "u", "c", "k">>, <<"b", "l", "o", "c", "k", "e", "d">>} THEN 2
    ELSE IF status = <<"p", "a", "u", "s", "e", "d">> THEN 3
    ELSE IF status = <<"b", "a", "c", "k", "l", "o", "g">> THEN 4
    ELSE 5

\* STATUS_RANK.get(status, 5)
status_rank(status) ==
    IF status \in {<<"a", "c", "t", "i", "v", "e">>, <<"i", "n", " ", "p", "r", "o", "g", "r", "e", "s", "s">>, <<"r", "u", "n", "n", "i", "n", "g">>} THEN 1
    ELSE IF status \in {<<"r", "e", "a", "d", "y">>, <<"s", "t", "u", "c", "k">>, <<"b", "l", "o", "c", "k", "e", "d">>} THEN 2
    ELSE IF status = <<"p", "a", "u", "s", "e", "d">> THEN 3
    ELSE IF status = <<"b", "a", "c", "k", "l", "o", "g">> THEN 4
    ELSE 5

\* PRIORITY_RANK.get(priority, 4)
priority_rank(priority) ==
    IF priority = <<"h", "i", "g", "h">> THEN 1
    ELSE IF priority \in {<<"m", "e", "d", "i", "u", "m">>, <<"m", "e", "d">>} THEN 2
    ELSE IF priority = <<"l", "o", "w">> THEN 3
    ELSE 4

\* Project.sort_key
sort_key(p) == <<status_rank(lower(p.status)), priority_rank(lower(p.priority)), lower(p.name)>>

\* a < b for two sort_key tuples
key_lt(a, b) ==
    \/ a[1] < b[1]
    \/ a[1] = b[1] /\ a[2] < b[2]
    \/ a[1] = b[1] /\ a[2] = b[2] /\ str_lt(a[3], b[3])

\* the key of projects.sort in scan_projects, compared
project_lt(p, q) ==
    LET kp == IF p.has_overview THEN 0 ELSE 1
        kq == IF q.has_overview THEN 0 ELSE 1
    IN  kp < kq \/ (kp = kq /\ key_lt(sort_key(p), sort_key(q)))

\* Project(name=name, dir_path=dir_path, has_overview=False)
MinimalProject(name) ==
    [name |-> name, has_overview |-> FALSE, status |-> <<"U", "n", "k", "n", "o", "w", "n">>, priority |-> <<"L", "o", "w">>,
     next_action |-> <<>>, energy |-> <<>>, time_estimate |-> <<>>,
     project_type |-> <<>>, code_path |-> <<>>, docker_name |-> <<>>,
     tags |-> <<>>, title |-> <<>>, doc |-> NoDoc]

\* doc.frontmatter.get("Tags", []), stringified when it is a list
tags_of(frontmatter) ==
    LET tags_raw == fm_get(frontmatter, <<"T", "a", "g", "s">>) IN
    IF (\E p \in frontmatter : p[1] = <<"T", "a", "g", "s">>) /\ tags_raw.t = "list"
    THEN [i \in 1..Len(tags_raw.items) |-> tags_raw.items[i].s]
    ELSE <<>>

\* the Project made of the parsed overview d
loaded_project(name, d) ==
    IF d.raised # NoException
    THEN [raised |-> d.raised, project |-> MinimalProject(name)]
    ELSE [raised |-> NoException,
          project |->
              [name |-> name, has_overview |-> TRUE,
               status |-> doc_get(d, <<"S", "t", "a", "t", "u", "s">>, <<"U", "n", "k", "n", "o", "w", "n">>),
               priority |-> doc_get(d, <<"P", "r", "i", "o", "r", "i", "t", "y">>, <<"L", "o", "w">>),
               next_action |-> doc_get(d, <<"N", "e", "x", "t", "_", "a", "c", "t", "i", "o", "n">>, <<>>),
               energy |-> doc_get(d, <<"E", "n", "e", "r", "g", "y", "_", "r", "e", "q", "u", "i", "r", "e", "d">>, <<>>),
               time_estimate |-> doc_get(d, <<"T", "i", "m", "e", "_", "e", "s", "t", "i", "m", "a", "t", "e">>, <<>>),
               project_type |-> doc_get(d, <<"T", "y", "p", "e">>, <<>>),
               code_path |-> doc_get(d, <<"c", "o", "d", "e", "_", "p", "a", "t", "h">>, <<>>),
               docker_name |-> doc_get(d, <<"d", "o", "c", "k", "e", "r", "_", "n", "a", "m", "e">>, <<>>),
               tags |-> tags_of(d.frontmatter),
               title |-> IF d.title # <<>> THEN d.title ELSE name,
               doc |-> d]]

\* Project.from_directory(dir_path) for the directory `entry` named `name`
from_directory(name, entry) ==
    IF ~entry.has_overview
    THEN [raised |-> NoException, project |-> MinimalProject(name)]
    ELSE loaded_project(name, parse_document(entry.overview))

\* item.is_dir() and not item.name.startswith((".", "_"))
is_project_dir(dir, name) ==
    /\ dir.children[name].kind = "dir"
    /\ ~startswith(name, <<".">>)
    /\ ~startswith(name, <<"_">>)

\* projects.sort(...) of the projects loaded, when every one of them loaded
sorted_projects(loaded) ==
    IF \E i \in 1..Len(loaded) : loaded[i].raised # NoException
    THEN [raised |-> "ValueError", projects |-> <<>>]
    ELSE [raised |-> NoException,
          projects |-> sort_list([i \in 1..Len(loaded) |-> loaded[i].project], project_lt)]

\* the loop of scan_projects over the qualifying items
load_items(dir, items) ==
    [i \in 1..Len(items) |-> from_directory(items[i], dir.children[items[i]])]

\* scan_projects(projects_path)
scan_projects(dir) ==
    IF ~dir.exists THEN [raised |-> NoException, projects |-> <<>>]
    ELSE sorted_projects(load_items(dir, SelectSeq(sorted_iterdir(dir),
                                                   LAMBDA n : is_project_dir(dir, n))))

\* the name of the projects directory itself
projects_path_name == <<"r">>
\* the projects directory as an entry of its parent; it holds no _OVERVIEW.md
projects_path_entry == [kind |-> "dir", has_overview |-> FALSE, overview |-> <<>>]

\* the parent of the projects directory as an entry of its own parent; it
\* holds the projects directory and no _OVERVIEW.md
parent_entry == [kind |-> "dir", has_overview |-> FALSE, overview |-> <<>>]

\* dir_path is the directory of the returned project, as the components of
\* its path below projects_path: <<>> is projects_path itself, <<n>> its
\* child n, <<"..">> its parent
NotFound ==
    [found |-> FALSE, raised |-> NoException, project |-> MinimalProject(<<>>),
     dir_path |-> <<>>]
Found(loaded, dir_path) ==
    [found |-> TRUE, raised |-> loaded.raised, project |-> loaded.project,
     dir_path |-> dir_path]

\* resolve_project(projects_path, query); projects_path / "" and
\* projects_path / "." are projects_path, and projects_path / ".." is a
\* path whose name is ".." and which is_dir() follows to the parent
resolve_project(dir, query) ==
    IF ~dir.exists THEN NotFound
    ELSE IF query \in {<<>>, <<".">>}
    THEN Found(from_directory(projects_path_name, projects_path_entry), <<>>)
    ELSE IF query = <<".", ".">>
    THEN Found(from_directory(query, parent_entry), <<"..">>)
    ELSE IF query \in DOMAIN dir.children /\ dir.children[query].kind = "dir"
    THEN Found(from_directory(query, dir.children[query]), <<query>>)
    ELSE LET matches == SelectSeq(sorted_iterdir(dir),
                                  LAMBDA n : /\ dir.children[n].kind = "dir"
                                             /\ is_substring(lower(query), lower(n)))
         IN  IF Len(matches) = 0 THEN NotFound
             ELSE Found(from_directory(matches[1], dir.children[matches[1]]),
                        <<matches[1]>>)

(* the directories the model starts from *)

OvActive == <<"-", "-", "-", "\n", "S", "t", "a", "t", "u", "s", ":", " ", "A", "c", "t", "i", "v", "e", "\n", "P", "r", "i", "o", "r", "i", "t", "y", ":", " ", "H", "i", "g", "h", "\n", "-", "-", "-", "\n", "#", " ", "T">>
OvHyphen == <<"-", "-", "-", "\n", "S", "t", "a", "t", "u", "s", ":", " ", "i", "n", "-", "p", "r", "o", "g", "r", "e", "s", "s", "\n", "-", "-", "-">>
OvSpace == <<"-", "-", "-", "\n", "S", "t", "a", "t", "u", "s", ":", " ", "i", "n", " ", "p", "r", "o", "g", "r", "e", "s", "s", "\n", "P", "r", "i", "o", "r", "i", "t", "y", ":", " ", "m", "e", "d", "\n", "-", "-", "-">>
OvPaused == <<"-", "-", "-", "\n", "S", "t", "a", "t", "u", "s", ":", " ", "P", "a", "u", "s", "e", "d", "\n", "T", "a", "g", "s", ":", "\n", "-", " ", "1", "\n", "-", "-", "-">>
OvBlocked == <<"-", "-", "-", "\n", "S", "t", "a", "t", "u", "s", ":", " ", "B", "l", "o", "c", "k", "e", "d", "\n", "-", "-", "-">>
OvBacklog == <<"-", "-", "-", "\n", "S", "t", "a", "t", "u", "s", ":", " ", "B", "a", "c", "k", "l", "o", "g", "\n", "T", "a", "g", "s", ":", " ", "x", "\n", "-", "-", "-">>
OvBadDate == <<"-", "-", "-", "\n", "D", "u", "e", ":", " ", "2", "0", "2", "2", "-", "0", "2", "-", "3", "0", "\n", "-", "-", "-">>
Overviews == {OvActive, OvHyphen, OvSpace, OvPaused, OvBlocked, OvBacklog, OvBadDate, <<>>}

PlainFile == [kind |-> "file", has_overview |-> FALSE, overview |-> <<>>]
BareDir == [kind |-> "dir", has_overview |-> FALSE, overview |-> <<>>]
DirWith(text) == [kind |-> "dir", has_overview |-> TRUE, overview |-> text]

Entries == {PlainFile, BareDir} \cup {DirWith(t) : t \in Overviews}
ExcludedEntries == {PlainFile, BareDir, DirWith(OvActive)}
VisibleNames == {<<"a">>, <<"A", "b">>, <<"b">>}
ExcludedNames == {<<".", "h">>, <<"_", "x">>}
Queries == {<<"a">>, <<"b">>, <<"B">>, <<"x">>, <<".">>, <<>>, <<".", ".">>}

Roots ==
    {NoRoot} \cup
    UNION {UNION {{[exists |-> TRUE, children |-> f] :
                      f \in {g \in [Vis \cup Exc -> Entries] :
                                \A n \in Exc : g[n] \in ExcludedEntries}} :
                   Exc \in {Y \in SUBSET ExcludedNames :
                              Cardinality(Vis) + Cardinality(Y) <= MaxChildren}} :
           Vis \in SUBSET VisibleNames}

Scan ==
    /\ out.of = "none"
    /\ out' = [of |-> "scan", result |-> scan_projects(root)]
    /\ UNCHANGED <<docvars, project_md, root, journal, now>>
    /\ UNCHANGED livevars

Resolve(query) ==
    /\ out.of = "none"
    /\ out' = [of |-> "resolve", query |-> query, result |-> resolve_project(root, query)]
    /\ UNCHANGED <<docvars, project_md, root, journal, now>>
    /\ UNCHANGED livevars

FromDirectory(name) ==
    /\ out.of = "none"
    /\ root.exists
    /\ name \in DOMAIN root.children
    /\ root.children[name].kind = "dir"
    /\ out' = [of |-> "from_directory", name |-> name,
               result |-> from_directory(name, root.children[name])]
    /\ UNCHANGED <<docvars, project_md, root, journal, now>>
    /\ UNCHANGED livevars

DocIdle ==
    /\ file = <<>>
    /\ prev = <<>>
    /\ op = NoOp
    /\ writes = 0
    /\ doc = NoDoc
    /\ given = NoGiven

InitProjects ==
    /\ DocIdle
    /\ project_md = <<>>
    /\ root \in Roots
    /\ journal = <<>>
    /\ now = StartOfDay
    /\ out = NoOut
    /\ LiveIdle

NextProjects ==
    \/ Scan
    \/ \E query \in Queries : Resolve(query)
    \/ \E name \in VisibleNames \cup ExcludedNames : FromDirectory(name)

SpecProjects == InitProjects /\ [][NextProjects]_vars

(* what the claims speak of *)

\* the immediate child directories whose name starts with neither . nor _
Qualifying ==
    IF ~root.exists THEN {}
    ELSE {n \in DOMAIN root.children :
             root.children[n].kind = "dir" /\ n[1] \notin {".", "_"}}

\* C13: scan_projects returns exactly one Project per immediate child
\* directory whose name starts with neither . nor _ (has_overview telling
\* whether the directory holds an overview), nothing else, and the empty list
\* when the root does not exist.
C13_OnePerDirectory ==
    out.of = "scan" =>
        /\ out.result.raised = NoException
        /\ LET projects == out.result.projects IN
           /\ Len(projects) = Cardinality(Qualifying)
           /\ {projects[i].name : i \in 1..Len(projects)} = Qualifying
           /\ \A i \in 1..Len(projects) :
                  projects[i].has_overview = root.children[projects[i].name].has_overview

\* the status table as a list of rows, `written` being the second status of
\* the first row
StatusRows(written) ==
    << {<<"a", "c", "t", "i", "v", "e">>, written, <<"r", "u", "n", "n", "i", "n", "g">>}, {<<"r", "e", "a", "d", "y">>, <<"s", "t", "u", "c", "k">>, <<"b", "l", "o", "c", "k", "e", "d">>}, {<<"p", "a", "u", "s", "e", "d">>}, {<<"b", "a", "c", "k", "l", "o", "g">>} >>
PriorityRows == << {<<"h", "i", "g", "h">>}, {<<"m", "e", "d", "i", "u", "m">>, <<"m", "e", "d">>}, {<<"l", "o", "w">>} >>

RowOf(rows, text) ==
    IF \E i \in 1..Len(rows) : lower(text) \in rows[i]
    THEN CHOOSE i \in 1..Len(rows) : lower(text) \in rows[i]
    ELSE Len(rows) + 1

\* p may stand before q: overview first, then (statusRank, priorityRank, name)
Precedes(p, q, written) ==
    LET sp == RowOf(StatusRows(written), p.status)
        sq == RowOf(StatusRows(written), q.status)
        pp == RowOf(PriorityRows, p.priority)
        pq == RowOf(PriorityRows, q.priority)
    IN  \/ p.has_overview /\ ~q.has_overview
        \/ /\ p.has_overview = q.has_overview
           /\ \/ sp < sq
              \/ sp = sq /\ pp < pq
              \/ sp = sq /\ pp = pq /\ ~str_lt(lower(q.name), lower(p.name))

Ordered(written) ==
    \A i, j \in 1..Len(out.result.projects) :
        i < j => Precedes(out.result.projects[i], out.result.projects[j], written)

\* C14 as claimed: the list is ordered overview first, then by
\* (statusRank, priorityRank, lower-cased name), with in-progress of rank 1.
C14_OrderAsClaimed ==
    (out.of = "scan" /\ out.result.raised = NoException) => Ordered(<<"i", "n", "-", "p", "r", "o", "g", "r", "e", "s", "s">>)

\* C14: whenever scan_projects returns, every project with an overview
\* precedes every project without one, and within each group the projects
\* ascend by (statusRank, priorityRank, lower-cased name), where statusRank is
\* active / in progress (with a space) / running = 1, ready / stuck / blocked
\* = 2, paused = 3, backlog = 4, anything else (in-progress with a hyphen
\* included) = 5, and priorityRank is high = 1, medium / med = 2, low = 3,
\* anything else = 4.
C14_Order ==
    (out.of = "scan" /\ out.result.raised = NoException) => Ordered(<<"i", "n", " ", "p", "r", "o", "g", "r", "e", "s", "s">>)

\* C14 witness: a scan of three projects: one without overview comes last
\* though its name is the smallest, and one in progress comes before a paused
\* one whose name is smaller.
C14_Witness ==
    /\ out.of = "scan"
    /\ out.result.raised = NoException
    /\ Len(out.result.projects) = 3
    /\ LET projects == out.result.projects IN
       /\ lower(projects[1].status) = <<"i", "n", " ", "p", "r", "o", "g", "r", "e", "s", "s">>
       /\ lower(projects[2].status) = <<"p", "a", "u", "s", "e", "d">>
       /\ str_lt(lower(projects[2].name), lower(projects[1].name))
       /\ ~projects[3].has_overview
       /\ str_lt(lower(projects[3].name), lower(projects[2].name))

\* C15: from_directory never raises; without an overview the result has
\* has_overview = False, the directory's name and every field at its default;
\* with one, each field is ParsedDocument.get of its key with its default, tags
\* is the stringified list when the raw Tags value is a list and empty
\* otherwise, and title falls back to the directory name.
C15_FromDirectory ==
    out.of = "from_directory" =>
        LET entry == root.children[out.name]
            project == out.result.project
            d == parse_document(entry.overview)
            tags_raw == fm_get(d.frontmatter, <<"T", "a", "g", "s">>)
        IN  /\ out.result.raised = NoException
            /\ project.name = out.name
            /\ project.has_overview = entry.has_overview
            /\ ~entry.has_overview =>
                   /\ project.status = <<"U", "n", "k", "n", "o", "w", "n">>
                   /\ project.priority = <<"L", "o", "w">>
                   /\ \A f \in {"next_action", "energy", "time_estimate", "project_type",
                                "code_path", "docker_name", "tags", "title"} : project[f] = <<>>
                   /\ project.doc = NoDoc
            /\ entry.has_overview =>
                   /\ project.status = doc_get(d, <<"S", "t", "a", "t", "u", "s">>, <<"U", "n", "k", "n", "o", "w", "n">>)
                   /\ project.priority = doc_get(d, <<"P", "r", "i", "o", "r", "i", "t", "y">>, <<"L", "o", "w">>)
                   /\ project.next_action = doc_get(d, <<"N", "e", "x", "t", "_", "a", "c", "t", "i", "o", "n">>, <<>>)
                   /\ project.energy = doc_get(d, <<"E", "n", "e", "r", "g", "y", "_", "r", "e", "q", "u", "i", "r", "e", "d">>, <<>>)
                   /\ project.time_estimate = doc_get(d, <<"T", "i", "m", "e", "_", "e", "s", "t", "i", "m", "a", "t", "e">>, <<>>)
                   /\ project.project_type = doc_get(d, <<"T", "y", "p", "e">>, <<>>)
                   /\ project.code_path = doc_get(d, <<"c", "o", "d", "e", "_", "p", "a", "t", "h">>, <<>>)
                   /\ project.docker_name = doc_get(d, <<"d", "o", "c", "k", "e", "r", "_", "n", "a", "m", "e">>, <<>>)
                   /\ project.tags = IF tags_raw.t = "list"
                                     THEN [i \in 1..Len(tags_raw.items) |-> tags_raw.items[i].s]
                                     ELSE <<>>
                   /\ project.title = IF d.title = <<>> THEN out.name ELSE d.title

\* the child directories of the root, by name
ChildDirs ==
    IF ~root.exists THEN {}
    ELSE {n \in DOMAIN root.children : root.children[n].kind = "dir"}

\* the child directories whose name contains the query, case-insensitively
Containing(query) == {n \in ChildDirs : is_substring(lower(query), lower(n))}

\* C16: resolve_project returns the child directory named exactly query when
\* there is one; otherwise the child directory, first in sorted-by-name order,
\* whose name contains query case-insensitively; not-found when the root is
\* absent or nothing matches.
C16_Resolve ==
    out.of = "resolve" =>
        LET result == out.result IN
        IF out.query \in ChildDirs
        THEN result.found /\ result.project.name = out.query
        ELSE IF Containing(out.query) # {}
        THEN /\ result.found
             /\ result.project.name \in Containing(out.query)
             /\ \A n \in Containing(out.query) : ~str_lt(n, result.project.name)
        ELSE ~result.found

\* C29: whatever the query (the empty string and ".." included),
\* resolve_project returns not-found or a project whose directory is an
\* immediate child directory of the root; never the root itself, never a
\* directory outside it.
C29_ChildOnly ==
    (out.of = "resolve" /\ out.result.found) =>
        /\ Len(out.result.dir_path) = 1
        /\ out.result.dir_path[1] \in ChildDirs

----------------------------------------------------------------------------
(* Journal: services/journal.py (SpecJournal, SpecRecent).  The journal    *)
(* directory is a function from days to the text of each day's file; the   *)
(* day d stands for the date 2026-01-d.                                    *)

\* U+2014 EM DASH; the module is ASCII, so the character is written as ~,
\* which no text of the model uses otherwise
EM_DASH == "~"

DigitChars == <<"0", "1", "2", "3", "4", "5", "6", "7", "8", "9">>
\* "%02d"
two_digits(n) == <<DigitChars[(n \div 10) + 1], DigitChars[(n % 10) + 1]>>

\* strftime("%H:%M") of a minute of the day
hhmm(minute) == two_digits(minute \div 60) \o <<":">> \o two_digits(minute % 60)

\* strftime("%Y-%m-%d") of a day of the month the model runs in
isoformat(day) == <<"2", "0", "2", "6", "-", "0", "1", "-">> \o two_digits(day)

\* f"\n## {timestamp} \u2014 {project_name}\n{note}\n"
entry_block(timestamp, project_name, note) ==
    <<NL>> \o H2 \o timestamp \o <<SP, EM_DASH, SP>> \o project_name \o <<NL>> \o note \o <<NL>>

\* f"# Journal \u2014 {date}\n"
journal_header(day) == H1 \o <<"J", "o", "u", "r", "n", "a", "l", " ">> \o <<EM_DASH, SP>> \o isoformat(day) \o <<NL>>

\* the directory with the file of `day` holding text
with_file(dir, day, text) ==
    [d \in DOMAIN dir \cup {day} |-> IF d = day THEN text ELSE dir[d]]

\* a log_work that writes the day file anew on every call
log_work_truncating(dir, t, project_name, note) ==
    with_file(dir, t.day,
              journal_header(t.day) \o entry_block(hhmm(t.minute), project_name, note))

\* log_work(project_name, note) at the time t
log_work(dir, t, project_name, note) ==
    LET entry == entry_block(hhmm(t.minute), project_name, note) IN
    IF t.day \notin DOMAIN dir
    THEN with_file(dir, t.day, journal_header(t.day) \o entry)
    ELSE with_file(dir, t.day, dir[t.day] \o entry)

\* s.find(c), -1 when absent
find_char(s, c) ==
    IF contains(s, c) THEN (CHOOSE i \in 1..Len(s) : s[i] = c /\ \A j \in 1..(i - 1) : s[j] # c) - 1
    ELSE -1

\* the dict appended by recent_entries
Entry(day, time, project, lines) ==
    [date |-> isoformat(day), time |-> time, project |-> project, note |-> strip(join(lines))]

\* the flush: entries, with the current entry appended when it has a time and a project
flushed(day, st) ==
    IF st.time # <<>> /\ st.project # <<>>
    THEN Append(st.entries, Entry(day, st.time, st.project, st.lines))
    ELSE st.entries

\* one pass of `for line in text.split("\n")`
entry_step(day, st, line) ==
    IF startswith(line, H2) /\ contains(line, EM_DASH)
    THEN LET header == strip(slice_from(line, 3))
             at == find_char(header, EM_DASH)
         IN  [time |-> strip(slice(header, 0, at)),
              project |-> strip(slice_from(header, at + 1)),
              lines |-> <<>>,
              entries |-> flushed(day, st)]
    ELSE IF st.time # <<>>
    THEN [st EXCEPT !.lines = Append(st.lines, line)]
    ELSE st

RECURSIVE entry_loop(_, _, _)
entry_loop(day, st, lines) ==
    IF Len(lines) = 0 THEN st
    ELSE entry_loop(day, entry_step(day, st, lines[1]), Tail(lines))

\* the entries recent_entries takes from one day file
file_entries(day, text) ==
    flushed(day, entry_loop(day, [time |-> <<>>, project |-> <<>>, lines |-> <<>>,
                                  entries |-> <<>>],
                            split(text)))

\* `for jfile in files[:7]`
MaxDayFiles == 7

RECURSIVE descending(_)
descending(S) ==
    IF S = {} THEN <<>>
    ELSE LET d == CHOOSE d \in S : \A e \in S : e <= d IN <<d>> \o descending(S \ {d})

RECURSIVE ascending(_)
ascending(S) ==
    IF S = {} THEN <<>>
    ELSE LET d == CHOOSE d \in S : \A e \in S : d <= e IN <<d>> \o ascending(S \ {d})

\* the seven oldest day files, oldest first
day_files_ascending(dir) ==
    LET files == ascending(DOMAIN dir) IN
    SubSeq(files, 1, IF Len(files) < MaxDayFiles THEN Len(files) ELSE MaxDayFiles)

\* sorted(jdir.glob("*.md"), reverse=True)[:7]
day_files(dir) ==
    LET files == descending(DOMAIN dir) IN
    SubSeq(files, 1, IF Len(files) < MaxDayFiles THEN Len(files) ELSE MaxDayFiles)

\* the loop over the files, with its break; read collects the files opened
RECURSIVE read_files(_, _, _, _, _)
read_files(dir, files, limit, entries, read) ==
    IF Len(files) = 0 THEN [entries |-> entries, read |-> read]
    ELSE LET more == entries \o file_entries(files[1], dir[files[1]]) IN
         IF Len(more) >= limit
         THEN [entries |-> more, read |-> read \cup {files[1]}]
         ELSE read_files(dir, Tail(files), limit, more, read \cup {files[1]})

\* recent_entries(limit), for limit >= 0
recent_entries(dir, limit) ==
    LET r == read_files(dir, day_files(dir), limit, <<>>, {}) IN
    [entries |-> SubSeq(r.entries, 1, IF Len(r.entries) < limit THEN Len(r.entries) ELSE limit),
     read |-> r.read]

(* the journal that is written *)

ProjectNames == {<<"p">>}
Notes == {<<"n">>, <<"m">>}
Minutes == {0, 545, 1439}
Clock == {[day |-> d, minute |-> m] : d \in 1..2, m \in Minutes}
Later(t, u) == u.day > t.day \/ (u.day = t.day /\ u.minute > t.minute)
NoFiles == [d \in {} |-> <<>>]
\* a day file that was made by hand
HandMade == [d \in {1} |-> <<"x">>]
Limits == {0, 1, 2}

LogWork(project_name, note) ==
    /\ writes < MaxLogs
    /\ writes' = writes + 1
    /\ journal' = log_work(journal, now, project_name, note)
    /\ out' = [of |-> "log_work", project |-> project_name, note |-> note,
               at |-> now, before |-> journal]
    /\ UNCHANGED <<file, prev, op, doc, given, project_md, root, now>>
    /\ UNCHANGED livevars

Recent(limit) ==
    /\ out.of # "recent_entries"
    /\ out' = [of |-> "recent_entries", limit |-> limit,
               result |-> recent_entries(journal, limit),
               logged |-> IF out.of = "log_work"
                          THEN <<[project |-> out.project, note |-> out.note]>>
                          ELSE <<>>]
    /\ UNCHANGED <<docvars, project_md, root, journal, now>>
    /\ UNCHANGED livevars

\* time passes
Tick(t) ==
    /\ Later(now, t)
    /\ now' = t
    /\ out' = NoOut
    /\ UNCHANGED <<docvars, project_md, root, journal>>
    /\ UNCHANGED livevars

InitJournal ==
    /\ DocIdle
    /\ project_md = <<>>
    /\ root = NoRoot
    /\ journal \in {NoFiles, HandMade}
    /\ now \in Clock
    /\ out = NoOut
    /\ LiveIdle

NextJournal ==
    \/ \E project_name \in ProjectNames, note \in Notes : LogWork(project_name, note)
    \/ \E limit \in Limits : Recent(limit)
    \/ \E t \in Clock : Tick(t)

SpecJournal == InitJournal /\ [][NextJournal]_vars

IsTime(t) ==
    /\ Len(t) = 5
    /\ t[3] = ":"
    /\ \A i \in {1, 2, 4, 5} : t[i] \in Digits

\* C17: log_work(project, note) followed immediately by recent_entries(1)
\* returns exactly one entry, with that project, that note and a time of the
\* shape HH:MM, in any journal state.
C17_RoundTrip ==
    (out.of = "recent_entries" /\ out.limit = 1 /\ out.logged # <<>>) =>
        /\ Len(out.result.entries) = 1
        /\ out.result.entries[1].project = out.logged[1].project
        /\ out.result.entries[1].note = out.logged[1].note
        /\ IsTime(out.result.entries[1].time)

DayEmpty == <<"#", " ", "J", "o", "u", "r", "n", "a", "l", " ", "~", " ", "2", "0", "2", "6", "-", "0", "1", "-", "0", "1">>
DayOne == <<"#", "#", " ", "0", "9", ":", "0", "5", " ", "~", " ", "p", "\n", "n">>
DayTwo == <<"#", "#", " ", "0", "9", ":", "0", "5", " ", "~", " ", "p", "\n", "n", "\n", "\n", "#", "#", " ", "1", "0", ":", "0", "0", " ", "~", " ", "q", "\n", "m", "\n">>
DayTexts == {DayEmpty, DayOne, DayTwo}

HeadEntry == <<"#", "#", " ", "0", "9", ":", "0", "5", " ", "~", " ", "p">>
HeadNoSeparator == <<"#", "#", " ", "B">>
HeadNoTime == <<"#", "#", " ", "~", " ", "p">>
HeadNoProject == <<"#", "#", " ", "0", "9", ":", "0", "5", " ", "~">>
EntryLines == {HeadEntry, HeadNoSeparator, HeadNoTime, HeadNoProject, <<"n">>, <<>>}

\* one day file per day of 1..n, each with no, one or two entries
ManyDays == UNION {[1..n -> DayTexts] : n \in 0..MaxDays}
\* one day file written by hand, of at most MaxLines lines
HandWritten ==
    UNION {{[d \in {1} |-> join(lines)] : lines \in [1..m -> EntryLines]} : m \in 1..MaxLines}

RecentLimits == {0, 1, 3, 20}

InitRecent ==
    /\ DocIdle
    /\ project_md = <<>>
    /\ root = NoRoot
    /\ journal \in ManyDays \cup HandWritten
    /\ now = StartOfDay
    /\ out = NoOut
    /\ LiveIdle

NextRecent == \E limit \in RecentLimits : Recent(limit)

SpecRecent == InitRecent /\ [][NextRecent]_vars

\* the day files that have fewer than seven newer ones
Newest == {d \in DOMAIN journal : Cardinality({e \in DOMAIN journal : e > d}) < 7}

Truncated(list, limit) == SubSeq(list, 1, IF Len(list) < limit THEN Len(list) ELSE limit)

\* the entries of the files of S, newest file first, each file's in file
\* order; of[d] is the list of the entries of the file of day d
RECURSIVE NewestFirst(_, _)
NewestFirst(S, of) ==
    IF S = {} THEN <<>>
    ELSE LET d == CHOOSE d \in S : \A e \in S : e <= d
         IN  of[d] \o NewestFirst(S \ {d}, of)

\* C18: recent_entries(limit) opens files newest first and none but the 7
\* most recent; the list returned is the entries of those files, newest file
\* first and each file's in file order, cut to at most limit entries.
C18_NewestFirst ==
    out.of = "recent_entries" =>
        /\ out.result.read \subseteq Newest
        /\ \A d \in out.result.read, e \in Newest : e > d => e \in out.result.read
        /\ out.result.entries = Truncated(NewestFirst(Newest, [d \in DOMAIN journal |->
                                                          file_entries(d, journal[d])]),
                                       out.limit)
        /\ Len(out.result.entries) <= out.limit

\* C18 witness: eight day files that all hold entries, read with limit 20:
\* the oldest file is not opened and entries of seven days are returned.
C18_Witness ==
    /\ out.of = "recent_entries"
    /\ out.limit = 20
    /\ DOMAIN journal = 1..8
    /\ \A d \in 1..8 : Len(file_entries(d, journal[d])) > 0
    /\ out.result.read = 2..8
    /\ Len(out.result.entries) >= 7
    /\ out.result.entries[1].date = isoformat(8)
    /\ out.result.entries[Len(out.result.entries)].date = isoformat(2)

\* the reading the claim describes: every "## " line opens an entry, and an
\* entry whose heading lacks the separator, the time or the project is left
\* out with the lines under it
ClaimedStep(day, st, line) ==
    IF startswith(line, H2)
    THEN LET header == strip(slice_from(line, 3))
             at == find_char(header, EM_DASH)
         IN  [time |-> IF at = -1 THEN <<>> ELSE strip(slice(header, 0, at)),
              project |-> IF at = -1 THEN <<>> ELSE strip(slice_from(header, at + 1)),
              lines |-> <<>>,
              entries |-> flushed(day, st)]
    ELSE IF st.time # <<>> /\ st.project # <<>>
    THEN [st EXCEPT !.lines = Append(st.lines, line)]
    ELSE st

RECURSIVE ClaimedLoop(_, _, _)
ClaimedLoop(day, st, lines) ==
    IF Len(lines) = 0 THEN st
    ELSE ClaimedLoop(day, ClaimedStep(day, st, lines[1]), Tail(lines))

ClaimedEntries(day, text) ==
    flushed(day, ClaimedLoop(day, [time |-> <<>>, project |-> <<>>, lines |-> <<>>,
                                   entries |-> <<>>],
                             split(text)))

\* C19: every entry returned has a time and a project, and a "## " heading
\* that lacks the separator or the time is left out whole: neither it nor the
\* lines under it come back as an entry or inside another entry's note.
C19_MalformedDropped ==
    out.of = "recent_entries" =>
        /\ \A i \in 1..Len(out.result.entries) :
               out.result.entries[i].time # <<>> /\ out.result.entries[i].project # <<>>
        /\ out.result.entries = Truncated(NewestFirst(Newest, [d \in DOMAIN journal |->
                                                          ClaimedEntries(d, journal[d])]),
                                       out.limit)

----------------------------------------------------------------------------
(* parser.py, models.py: paths and directories that are not there *)

\* ParsedDocument(): the document parse_document starts from
DefaultDocument ==
    [raised |-> NoException, frontmatter |-> {}, body |-> <<>>,
     sections |-> <<>>, title |-> <<>>]

\* a path that exists and whose read_text raises: no permission, a
\* directory, bytes that are not UTF-8
Unreadable == [kind |-> "unreadable", text |-> <<>>]
TextFile(text) == [kind |-> "file", text |-> text]

\* parse_document that lets the error of read_text through
parse_path_raising(p) ==
    IF p.kind = "absent" THEN DefaultDocument
    ELSE IF p.kind = "unreadable"
    THEN [DefaultDocument EXCEPT !.raised = "OSError"]
    ELSE parse_document(p.text)

\* parse_document(path), whatever is at path
parse_path(p) ==
    IF p.kind = "absent" THEN DefaultDocument
    ELSE IF p.kind = "unreadable" THEN DefaultDocument
    ELSE parse_document(p.text)

Paths == {NoPath, Unreadable} \cup {TextFile(t) : t \in {<<>>, OvActive, OvBadDate}}

\* the roots with at most one child, the missing root among them
SmallRoots == {r \in Roots : Cardinality(DOMAIN r.children) <= 1}

\* parse_document(path)
ParsePath ==
    /\ doc.raised = "unparsed"
    /\ doc' = parse_path(path)
    /\ UNCHANGED <<file, prev, op, writes, given>>
    /\ UNCHANGED envvars
    /\ UNCHANGED livevars

InitMissing ==
    /\ DocIdle
    /\ project_md = <<>>
    /\ root \in SmallRoots
    /\ journal = <<>>
    /\ now = StartOfDay
    /\ out = NoOut
    /\ path \in Paths
    /\ screen = NoScreen
    /\ call = NoCall

NextMissing ==
    \/ ParsePath
    \/ Scan
    \/ \E query \in Queries : Resolve(query)
    \/ \E name \in VisibleNames \cup ExcludedNames : FromDirectory(name)

SpecMissing == InitMissing /\ [][NextMissing]_vars

----------------------------------------------------------------------------
(* config.py: Config, load_config *)

\* Config(): the defaults of the dataclass
DefaultOverviewDir == V("str", <<"v", "1", "/", "d", "e", "v", "-", "s", "y", "s", "t", "e", "m", "/", "0", "4", " ", "p", "r", "o", "j", "e", "c", "t", "s">>)
DefaultStatusPresets ==
    VList(<<V("str", <<"A", "c", "t", "i", "v", "e">>), V("str", <<"P", "a", "u", "s", "e", "d">>), V("str", <<"B", "a", "c", "k", "l", "o", "g">>),
            V("str", <<"I", "N", " ", "P", "R", "O", "G", "R", "E", "S", "S">>), V("str", <<"B", "L", "O", "C", "K", "E", "D">>), V("str", <<"S", "T", "U", "C", "K">>),
            V("str", <<"R", "E", "A", "D", "Y">>), V("str", <<"R", "U", "N", "N", "I", "N", "G">>)>>)
DefaultPriorityPresets == VList(<<V("str", <<"H", "i", "g", "h">>), V("str", <<"M", "e", "d", "i", "u", "m">>), V("str", <<"L", "o", "w">>)>>)
DefaultConfig ==
    [base_path |-> V("str", <<>>), overview_dir |-> DefaultOverviewDir,
     editor |-> V("str", <<>>), status_presets |-> DefaultStatusPresets,
     priority_presets |-> DefaultPriorityPresets]

\* bool(v) of a loaded value
truthy(v) ==
    CASE v.t = "null" -> FALSE
      [] v.t = "bool" -> v.s = <<"T", "r", "u", "e">>
      [] v.t = "int" -> v.s # <<"0">>
      [] v.t = "str" -> v.s # <<>>
      [] v.t = "list" -> v.items # <<>>
      [] v.t = "dict" -> FALSE
      [] OTHER -> TRUE

\* the text of a block list's entry
entry_text(c) == IF c = <<"-">> THEN <<>> ELSE cut_comment(slice_from(c, 2))

\* A document that loads as no mapping: "raises" when a scalar of it is a
\* timestamp that is no date, else whether the value loaded is truthy.
other_value(content) ==
    LET c == lstrip(content[1]) IN
    IF is_entry(c)
    THEN IF \E i \in 1..Len(content) :
                /\ is_entry(lstrip(content[i]))
                /\ resolve_plain(entry_text(lstrip(content[i]))).t = "ValueError"
         THEN "raises" ELSE "truthy"
    ELSE IF c[1] \in {"[", "\"", "'"}
    THEN IF construct_raises(construct(scan_node(c).v)) THEN "raises"
         ELSE IF truthy(construct(scan_node(c).v)) THEN "truthy" ELSE "falsy"
    ELSE IF Len(content) > 1 THEN "truthy"
    ELSE IF resolve_plain(cut_comment(c)).t = "ValueError" THEN "raises"
    ELSE IF truthy(resolve_plain(cut_comment(c))) THEN "truthy" ELSE "falsy"

\* data after `yaml.safe_load(f) or {}` and its `except Exception`:
\* [mapping, dict]; mapping is FALSE when data is a truthy value that is
\* no mapping (a list, a string, a number)
loaded_data(loaded, content) ==
    IF loaded.kind = "dict" THEN [mapping |-> TRUE, dict |-> loaded.dict]
    ELSE IF loaded.kind \in {"YAMLError", "ValueError"} THEN [mapping |-> TRUE, dict |-> {}]
    ELSE IF Len(content) = 0 THEN [mapping |-> TRUE, dict |-> {}]
    ELSE [mapping |-> other_value(content) # "truthy", dict |-> {}]

config_data(p) ==
    IF p.kind = "unreadable" THEN [mapping |-> TRUE, dict |-> {}]
    ELSE loaded_data(safe_load(p.text), content_lines(split(p.text)))

has_key(dict, key) == \E pair \in dict : pair[1] = key

\* data.get(key, default)
data_get(dict, key, default) ==
    IF has_key(dict, key) THEN (CHOOSE pair \in dict : pair[1] = key)[2] ELSE default

\* the presets taken from data when they are a list
presets(dict, key, default) ==
    IF has_key(dict, key) /\ data_get(dict, key, default).t = "list"
    THEN data_get(dict, key, default) ELSE default

\* cfg.base_path, detected when it is empty
based(base_path, detected) == IF truthy(base_path) THEN base_path ELSE V("str", detected)

\* the Config filled from data, or the AttributeError of data.get
configured(data, detected) ==
    IF ~data.mapping
    THEN [raised |-> "AttributeError", config |-> DefaultConfig]
    ELSE [raised |-> NoException,
          config |->
              [base_path |-> based(data_get(data.dict, <<"b", "a", "s", "e", "_", "p", "a", "t", "h">>, V("str", <<>>)), detected),
               overview_dir |-> data_get(data.dict, <<"o", "v", "e", "r", "v", "i", "e", "w", "_", "d", "i", "r">>, DefaultOverviewDir),
               editor |-> data_get(data.dict, <<"e", "d", "i", "t", "o", "r">>, V("str", <<>>)),
               status_presets |-> presets(data.dict, <<"s", "t", "a", "t", "u", "s", "-", "p", "r", "e", "s", "e", "t", "s">>, DefaultStatusPresets),
               priority_presets |-> presets(data.dict, <<"p", "r", "i", "o", "r", "i", "t", "y", "-", "p", "r", "e", "s", "e", "t", "s">>, DefaultPriorityPresets)]]

\* load_config(), path being ~/.whatdoing/config.yaml and detected what
\* detect_base_path() returns on this machine
load_config(p, detected) ==
    IF p.kind = "absent"
    THEN [raised |-> NoException, config |-> [DefaultConfig EXCEPT !.base_path = V("str", detected)]]
    ELSE configured(config_data(p), detected)

(* the config files the model starts from *)

MaxConfigLines == 3
ConfigPieces ==
    {<<"e", "d", "i", "t", "o", "r", ":", " ", "v", "i">>, <<"o", "v", "e", "r", "v", "i", "e", "w", "_", "d", "i", "r", ":", " ", "d">>, <<"b", "a", "s", "e", "_", "p", "a", "t", "h", ":", " ", "/", "h">>, <<"s", "t", "a", "t", "u", "s", "-", "p", "r", "e", "s", "e", "t", "s", ":">>, <<"-", " ", "A">>,
     <<"p", "r", "i", "o", "r", "i", "t", "y", "-", "p", "r", "e", "s", "e", "t", "s", ":", " ", "x">>, <<"x">>, <<"0">>, <<"k", ":", " ", "[">>}
ConfigFiles ==
    {NoPath, Unreadable} \cup {TextFile(t) : t \in DocsOf(ConfigPieces, MaxConfigLines)}
Detected == {<<>>, <<"/", "s">>}

LoadConfig(detected) ==
    /\ out.of = "none"
    /\ out' = [of |-> "load_config", detected |-> detected,
               result |-> load_config(path, detected)]
    /\ UNCHANGED <<docvars, project_md, root, journal, now>>
    /\ UNCHANGED livevars

InitConfig ==
    /\ DocIdle
    /\ project_md = <<>>
    /\ root = NoRoot
    /\ journal = <<>>
    /\ now = StartOfDay
    /\ out = NoOut
    /\ path \in ConfigFiles
    /\ screen = NoScreen
    /\ call = NoCall

NextConfig == \E detected \in Detected : LoadConfig(detected)

SpecConfig == InitConfig /\ [][NextConfig]_vars

\* the keys the user file holds: those of its mapping, none when it holds
\* no mapping
FileKeys(loaded) == IF loaded.kind = "dict" THEN {pair[1] : pair \in loaded.dict} ELSE {}

Defaulted(keys, config) ==
    /\ <<"o", "v", "e", "r", "v", "i", "e", "w", "_", "d", "i", "r">> \notin keys => config.overview_dir = DefaultOverviewDir
    /\ <<"e", "d", "i", "t", "o", "r">> \notin keys => config.editor = V("str", <<>>)
    /\ <<"s", "t", "a", "t", "u", "s", "-", "p", "r", "e", "s", "e", "t", "s">> \notin keys => config.status_presets = DefaultStatusPresets
    /\ <<"p", "r", "i", "o", "r", "i", "t", "y", "-", "p", "r", "e", "s", "e", "t", "s">> \notin keys => config.priority_presets = DefaultPriorityPresets

\* C22: load_config never raises and returns a Config that holds the default
\* for every key the user file lacks, whether the file is absent, empty, no
\* YAML, or YAML that loads as something other than a mapping.
C22_Defaults ==
    out.of = "load_config" =>
        /\ out.result.raised = NoException
        /\ Defaulted(IF path.kind = "file" THEN FileKeys(safe_load(path.text)) ELSE {},
                     out.result.config)

----------------------------------------------------------------------------
(* services/journal.py: search_journal (SpecSearch) *)

\* recent_entries(limit=100)
SearchLimit == 100

\* q in e["project"].lower() or q in e["note"].lower()
matches(q, e) == is_substring(q, lower(e.project)) \/ is_substring(q, lower(e.note))

\* search_journal(query)
search_journal(dir, query) ==
    SelectSeq(recent_entries(dir, SearchLimit).entries, LAMBDA e : matches(lower(query), e))

SearchQueries == {<<>>, <<"p">>, <<"Q">>, <<"N">>, <<"z">>}

Search(query) ==
    /\ out.of = "none"
    /\ out' = [of |-> "search_journal", query |-> query,
               result |-> search_journal(journal, query)]
    /\ UNCHANGED <<docvars, project_md, root, journal, now>>
    /\ UNCHANGED livevars

InitSearch ==
    /\ DocIdle
    /\ project_md = <<>>
    /\ root = NoRoot
    /\ journal \in ManyDays
    /\ now = StartOfDay
    /\ out = NoOut
    /\ LiveIdle

NextSearch == \E query \in SearchQueries : Search(query)

SpecSearch == InitSearch /\ [][NextSearch]_vars

\* the entries of a list, as a set
Range(list) == {list[i] : i \in 1..Len(list)}

\* C23: search_journal(query) searches every day file of the journal: each
\* well-formed entry of any day file whose project or note contains query,
\* letter case aside, is in the result.
C23_SearchAll ==
    out.of = "search_journal" =>
        \A d \in DOMAIN journal :
            \A e \in Range(file_entries(d, journal[d])) :
                matches(lower(out.query), e) => e \in Range(out.result)

----------------------------------------------------------------------------
(* services/journal.py: log_work statement by statement (SpecLogSteps).    *)
(* The clock may move between any two statements of a call; each           *)
(* datetime.now() reads it where it stands.                                *)

\* path = today_file(): the first reading of the clock
LogPath(project_name, note) ==
    /\ call = NoCall
    /\ writes < MaxLogs
    /\ call' = [of |-> "log_work", pc |-> "timestamp", project |-> project_name,
                note |-> note, path |-> now.day, timestamp |-> <<>>, stamped |-> now.day]
    /\ out' = NoOut
    /\ UNCHANGED <<docvars, project_md, root, journal, now, path, screen>>

\* timestamp = datetime.now().strftime("%H:%M"): the second reading
LogTimestamp ==
    /\ call.of = "log_work" /\ call.pc = "timestamp"
    /\ call' = [call EXCEPT !.pc = "write", !.timestamp = hhmm(now.minute),
                            !.stamped = now.day]
    /\ UNCHANGED <<docvars, envvars, path, screen>>

\* `if not path.exists()`: the header, with the third reading, and the
\* entry; else the entry appended
LogWrite ==
    /\ call.of = "log_work" /\ call.pc = "write"
    /\ journal' =
           IF call.path \notin DOMAIN journal
           THEN with_file(journal, call.path,
                          journal_header(now.day)
                              \o entry_block(call.timestamp, call.project, call.note))
           ELSE with_file(journal, call.path,
                          journal[call.path]
                              \o entry_block(call.timestamp, call.project, call.note))
    /\ out' = [of |-> "log_work_done", file_day |-> call.path, stamp_day |-> call.stamped,
               created |-> call.path \notin DOMAIN journal, header_day |-> now.day]
    /\ call' = NoCall
    /\ writes' = writes + 1
    /\ UNCHANGED <<file, prev, op, doc, given, project_md, root, now, path, screen>>

\* the clock moves while a call is under way or between two calls
ClockMoves(t) ==
    /\ Later(now, t)
    /\ now' = t
    /\ UNCHANGED <<docvars, project_md, root, journal, out>>
    /\ UNCHANGED livevars

InitLogSteps ==
    /\ DocIdle
    /\ project_md = <<>>
    /\ root = NoRoot
    /\ journal \in {NoFiles, HandMade}
    /\ now \in Clock
    /\ out = NoOut
    /\ LiveIdle

NextLogSteps ==
    \/ \E project_name \in ProjectNames, note \in Notes : LogPath(project_name, note)
    \/ LogTimestamp
    \/ LogWrite
    \/ \E t \in Clock : ClockMoves(t)

SpecLogSteps == InitLogSteps /\ [][NextLogSteps]_vars

\* the minute of the day a HH:MM of the model's clock stands for
minute_of(time) == CHOOSE minute \in Minutes : hhmm(minute) = time

JournalMark == <<"#", " ", "J", "o", "u", "r", "n", "a", "l", " ", "~", " ">>

\* the file of day d holds no header of another date
OwnHeader(d) ==
    startswith(journal[d], JournalMark) => startswith(journal[d], journal_header(d))

\* no entry of the file of day d bears a time earlier than the entry before it
TimesAscend(d) ==
    \A i \in 2..Len(file_entries(d, journal[d])) :
        minute_of(file_entries(d, journal[d])[i - 1].time)
            <= minute_of(file_entries(d, journal[d])[i].time)

\* C24: one call of log_work has one today, even when the clock moves
\* (past midnight too) between its steps: the day in the file name, the day
\* of the header of a file it creates and the day the HH:MM is read on are
\* the same, so no day file holds a header of another date or an entry
\* earlier than the entry before it.
C24_OneToday ==
    /\ out.of = "log_work_done" =>
           /\ out.stamp_day = out.file_day
           /\ out.created => out.header_day = out.file_day
    /\ \A d \in DOMAIN journal : OwnHeader(d) /\ TimesAscend(d)

----------------------------------------------------------------------------
(* services/files.py, git.py, docker.py: the live-status lookups           *)
(* (SpecLive).  A lookup is a call that runs step by step; the process it  *)
(* starts is outside the program: it exits when it exits, or never.        *)

\* str(n) of a natural number
RECURSIVE int_str(_)
int_str(n) == IF n < 10 THEN <<DigitChars[n + 1]>> ELSE int_str(n \div 10) \o <<DigitChars[(n % 10) + 1]>>

\* _relative_time(seconds)
relative_time(seconds) ==
    IF seconds < 60 THEN <<"j", "u", "s", "t", " ", "n", "o", "w">>
    ELSE IF seconds < 3600 THEN int_str(seconds \div 60) \o <<"m", " ", "a", "g", "o">>
    ELSE IF seconds < 86400 THEN int_str(seconds \div 3600) \o <<"h", " ", "a", "g", "o">>
    ELSE IF seconds < 604800 THEN int_str(seconds \div 86400) \o <<"d", " ", "a", "g", "o">>
    ELSE IF seconds < 2592000 THEN int_str(seconds \div 604800) \o <<"w", " ", "a", "g", "o">>
    ELSE int_str(seconds \div 2592000) \o <<"m", "o", " ", "a", "g", "o">>

Placeholder == <<EM_DASH>>
NoRepo == <<"n", "o", " ", "r", "e", "p", "o">>
NoCommits == <<"n", "o", " ", "c", "o", "m", "m", "i", "t", "s">>
GitNotFound == <<"g", "i", "t", " ", "n", "o", "t", " ", "f", "o", "u", "n", "d">>

\* a process that was started: running, or exited with a code and an output
Running == [exited |-> FALSE, returncode |-> 0, stdout |-> <<>>]
Exited(returncode, stdout) == [exited |-> TRUE, returncode |-> returncode, stdout |-> stdout]

\* int(lines[1]) succeeds
is_epoch(s) == Len(s) > 0 /\ \A i \in 1..Len(s) : s[i] \in Digits

\* int(s) of a string of digits
RECURSIVE int_of(_)
int_of(s) == IF Len(s) = 0 THEN 0 ELSE 10 * int_of(SubSeq(s, 1, Len(s) - 1)) + DigitVal(s[Len(s)])

\* recent_activity after proc.communicate(): what it returns of the process
git_info(proc, time) ==
    IF proc.returncode # 0 \/ proc.stdout = <<>> THEN NoCommits
    ELSE IF Len(split(strip(proc.stdout))) < 2 THEN NoCommits
    ELSE IF is_epoch(split(strip(proc.stdout))[2])
    THEN split(strip(proc.stdout))[1] \o <<" ", " ", "(">>
             \o relative_time(time - int_of(split(strip(proc.stdout))[2])) \o <<")">>
    ELSE split(strip(proc.stdout))[1]

\* container_status after proc.communicate()
docker_info(proc) ==
    IF proc.returncode = 0 /\ proc.stdout # <<>> THEN strip(proc.stdout) ELSE Placeholder

\* last_modified once the walk is over; newest is the newest file's name
\* ("" when the walk found none) and age the seconds since its mtime
modified_info(newest, age) ==
    IF newest = <<>> THEN Placeholder
    ELSE relative_time(age) \o <<" ", " ", "(">> \o newest \o <<")">>

Returned(service, result, failure) ==
    [of |-> "lookup", service |-> service, result |-> result, failure |-> failure]

Lookup(service, pc) ==
    [of |-> "lookup", service |-> service, pc |-> pc, proc |-> Running, timeout |-> 0]

\* the timeout of asyncio.wait_for around proc.communicate(), in seconds
DockerTimeout == 5

\* files.last_modified(code_path): no directory to walk, or a walk
LastModified(code_path_is_dir) ==
    /\ call.of = "none"
    /\ IF code_path_is_dir
       THEN call' = Lookup("files", "walk") /\ out' = out
       ELSE call' = NoCall /\ out' = Returned("files", Placeholder, "none")
    /\ UNCHANGED <<docvars, project_md, root, journal, now, path, screen>>

\* the walk ends: with an OSError, or with the newest file it found
WalkEnds(oserror, newest, age) ==
    /\ call.of = "lookup" /\ call.pc = "walk"
    /\ call' = NoCall
    /\ out' = Returned("files", IF oserror THEN Placeholder ELSE modified_info(newest, age),
                       "none")
    /\ UNCHANGED <<docvars, project_md, root, journal, now, path, screen>>

\* git.recent_activity(code_path) up to `await proc.communicate()`
RecentActivity(code_path, is_repo, git_installed) ==
    /\ call.of = "none"
    /\ IF code_path = <<>>
       THEN call' = NoCall /\ out' = Returned("git", Placeholder, "none")
       ELSE IF ~is_repo
       THEN call' = NoCall /\ out' = Returned("git", NoRepo, "none")
       ELSE IF ~git_installed
       THEN call' = NoCall /\ out' = Returned("git", GitNotFound, "missing binary")
       ELSE call' = Lookup("git", "communicate") /\ out' = out
    /\ UNCHANGED <<docvars, project_md, root, journal, now, path, screen>>

\* proc.communicate() returns, the process having exited
GitReturns(time) ==
    /\ call.of = "lookup" /\ call.service = "git" /\ call.proc.exited
    /\ call' = NoCall
    /\ out' = Returned("git", git_info(call.proc, time),
                       IF call.proc.returncode # 0 THEN "non-zero exit" ELSE "none")
    /\ UNCHANGED <<docvars, project_md, root, journal, now, path, screen>>

\* docker.container_status(name, remote_host) up to the wait_for
ContainerStatus(name, host, local_docker, installed) ==
    /\ call.of = "none"
    /\ IF name = <<>>
       THEN call' = NoCall /\ out' = Returned("docker", Placeholder, "none")
       ELSE IF host = <<>> /\ ~local_docker
       THEN call' = NoCall /\ out' = Returned("docker", Placeholder, "missing binary")
       ELSE IF ~installed
       THEN call' = NoCall /\ out' = Returned("docker", Placeholder, "missing binary")
       ELSE call' = [Lookup("docker", "wait_for") EXCEPT !.timeout = DockerTimeout]
            /\ out' = out
    /\ UNCHANGED <<docvars, project_md, root, journal, now, path, screen>>

\* wait_for returns what communicate() returned
DockerReturns ==
    /\ call.of = "lookup" /\ call.service = "docker" /\ call.proc.exited
    /\ call' = NoCall
    /\ out' = Returned("docker", docker_info(call.proc),
                       IF call.proc.returncode # 0 THEN "non-zero exit" ELSE "none")
    /\ UNCHANGED <<docvars, project_md, root, journal, now, path, screen>>

\* a second passes while wait_for waits
TimerTicks ==
    /\ call.of = "lookup" /\ call.timeout > 0 /\ ~call.proc.exited
    /\ call' = [call EXCEPT !.timeout = @ - 1]
    /\ UNCHANGED <<docvars, envvars, path, screen>>

\* wait_for raises TimeoutError, caught: the placeholder
TimesOut ==
    /\ call.of = "lookup" /\ call.pc = "wait_for" /\ call.timeout = 0 /\ ~call.proc.exited
    /\ call' = NoCall
    /\ out' = Returned("docker", Placeholder, "timeout")
    /\ UNCHANGED <<docvars, project_md, root, journal, now, path, screen>>

\* the process exits; nothing in the program makes it
ProcExits(returncode, stdout) ==
    /\ call.of = "lookup" /\ call.pc \in {"communicate", "wait_for"} /\ ~call.proc.exited
    /\ call' = [call EXCEPT !.proc = Exited(returncode, stdout)]
    /\ UNCHANGED <<docvars, envvars, path, screen>>

(* what the lookups are given *)

CodePaths == {<<>>, <<"/", "c">>}
ContainerNames == {<<>>, <<"w", "e", "b">>}
Hosts == {<<>>, <<"h">>}
FileNames == {<<>>, <<"a", ".", "p", "y">>}
Ages == {30, 7200}
Times == {100, 90000}
GitOutputs == {<<>>, <<"a", "b", "1", " ", "f", "i", "x">>, <<"a", "b", "1", " ", "f", "i", "x", "\n", "4", "0", "\n">>, <<"a", "b", "1", " ", "f", "i", "x", "\n", "x">>}
DockerOutputs == {<<>>, <<"w", "e", "b", " ", " ", "U", "p", " ", "2", " ", "h", "o", "u", "r", "s", "\n">>}
ReturnCodes == {0, 1}

InitLive ==
    /\ DocIdle
    /\ project_md = <<>>
    /\ root = NoRoot
    /\ journal = <<>>
    /\ now = StartOfDay
    /\ out = NoOut
    /\ LiveIdle

\* the steps the event loop and its threads take by themselves
LookupSteps ==
    \/ \E oserror \in BOOLEAN, newest \in FileNames, age \in Ages : WalkEnds(oserror, newest, age)
    \/ \E time \in Times : GitReturns(time)
    \/ DockerReturns
    \/ TimerTicks
    \/ TimesOut

NextLive ==
    \/ \E code_path_is_dir \in BOOLEAN : LastModified(code_path_is_dir)
    \/ \E code_path \in CodePaths, is_repo \in BOOLEAN, git_installed \in BOOLEAN :
           RecentActivity(code_path, is_repo, git_installed)
    \/ \E name \in ContainerNames, host \in Hosts, local_docker \in BOOLEAN,
          installed \in BOOLEAN : ContainerStatus(name, host, local_docker, installed)
    \/ \E returncode \in ReturnCodes, stdout \in GitOutputs \cup DockerOutputs :
           ProcExits(returncode, stdout)
    \/ LookupSteps

SpecLive == InitLive /\ [][NextLive]_vars

\* The event loop runs every coroutine that can go on and fires every timer
\* that is due; the thread of the walk runs to its end.  No process is bound
\* to exit.
SpecLiveFair == SpecLive /\ WF_vars(LookupSteps)

Placeholders == {Placeholder, NoRepo, NoCommits}

\* C25: every live-status lookup returns in the end, and what it returns on
\* a timeout, a missing binary or a non-zero exit is one of the fixed
\* placeholders.
C25_Lookups ==
    /\ [](out.of = "lookup" /\ out.failure # "none" => out.result \in Placeholders)
    /\ (call.of = "lookup") ~> (call.of = "none")

----------------------------------------------------------------------------
(* screens/project.py: ProjectScreen.  The screen is                       *)
(*   project    the Project in memory, read from the overview file         *)
(*   active     it is the screen on top                                    *)
(*   editing, adding_new   _editing and _adding_new                        *)
(*   select     the value of each Select; shown the editors displayed      *)
(*   events     the Select.Changed messages posted and not yet handled,    *)
(*              each with what posted it                                   *)
(*   fetches    the live-data fetches started so far; workers the place of *)
(*              each one's worker; panel, per line, the fetch whose text   *)
(*              the line shows and whether it is still "loading..."        *)
(* The project has an overview file, whose statuses are among the presets. *)
(* The user opens an editor or picks an option when no message waits: a    *)
(* message is handled long before the next key is pressed.                 *)

MaxFetches == 3

ADD_NEW_SENTINEL == <<"_", "_", "a", "d", "d", "_", "n", "e", "w", "_", "_">>

\* the str of each element of a preset list
preset_values(list) == [i \in 1..Len(list.items) |-> list.items[i].s]

\* _normalize_status, _normalize_priority
normalize(value, options) ==
    IF \E i \in 1..Len(options) : lower(value) = lower(options[i])
    THEN options[CHOOSE i \in 1..Len(options) :
                     /\ lower(value) = lower(options[i])
                     /\ \A j \in 1..(i - 1) : lower(value) # lower(options[j])]
    ELSE value

StatusPresets == preset_values(DefaultStatusPresets)
PriorityPresets == preset_values(DefaultPriorityPresets)
presets_of(field) == IF field = "status" THEN StatusPresets ELSE PriorityPresets

Loading(fetch) == [fetch |-> fetch, loading |-> TRUE]
Loaded(fetch) == [fetch |-> fetch, loading |-> FALSE]

\* Project.from_directory(self.project.dir_path)
screen_project(text) == from_directory(<<"a">>, DirWith(text)).project

\* ProjectScreen(project), pushed and not yet mounted
NewScreen(project) ==
    [mounted |-> TRUE, active |-> TRUE, project |-> project, editing |-> "",
     adding_new |-> "", select |-> [status |-> StatusPresets[1], priority |-> PriorityPresets[1]],
     shown |-> {}, events |-> <<>>, fetches |-> 0, workers |-> <<>>,
     panel |-> [modified |-> Loading(0), git |-> Loading(0), docker |-> Loading(0)]]

\* _fetch_live_data: the three lines say loading and a worker is started
fetch_live_data(s) ==
    [s EXCEPT !.fetches = @ + 1,
              !.workers = Append(@, "modified"),
              !.panel = [modified |-> Loading(s.fetches + 1), git |-> Loading(s.fetches + 1),
                         docker |-> Loading(s.fetches + 1)]]

\* _hide_editors
hide_editors(s) == [s EXCEPT !.editing = "", !.adding_new = "", !.shown = {}]

Changed(select, value, origin) == [select |-> select, value |-> value, origin |-> origin]

\* on_mount: the editors are hidden, set_options gives each Select its
\* first option, the project is rendered and the live data fetched
Mount ==
    /\ ~screen.mounted
    /\ screen' = fetch_live_data(
           [NewScreen(screen_project(file)) EXCEPT
               !.events = <<Changed("status", StatusPresets[1], "mount"),
                            Changed("priority", PriorityPresets[1], "mount")>>])
    /\ UNCHANGED <<docvars, envvars, path, call>>

\* another screen is pushed on top: scratchpad, journal, guide
OpenScreen ==
    /\ screen.mounted /\ screen.active
    /\ screen' = [screen EXCEPT !.active = FALSE]
    /\ UNCHANGED <<docvars, envvars, path, call>>

\* on_screen_resume
ScreenResume ==
    /\ screen.mounted /\ ~screen.active
    /\ screen.fetches < MaxFetches
    /\ screen' = fetch_live_data([screen EXCEPT !.active = TRUE,
                                                !.project = screen_project(file)])
    /\ UNCHANGED <<docvars, envvars, path, call>>

\* action_edit_file: the editor leaves text in the file; the project is
\* loaded again and the live data fetched
EditFile(text) ==
    /\ screen.mounted /\ screen.active
    /\ screen.fetches < MaxFetches
    /\ file' = text
    /\ prev' = file
    /\ screen' = fetch_live_data([screen EXCEPT !.project = screen_project(text)])
    /\ UNCHANGED <<op, writes, doc, given, envvars, path, call>>

\* _load_live_data: the lookup the worker awaits returns and its line is
\* updated
WorkerStep(fetch) ==
    /\ screen.mounted
    /\ fetch \in 1..Len(screen.workers)
    /\ screen.workers[fetch] # "done"
    /\ screen' =
           [screen EXCEPT
               !.panel[screen.workers[fetch]] = Loaded(fetch),
               !.workers[fetch] = CASE @ = "modified" -> "git"
                                    [] @ = "git" -> "docker"
                                    [] @ = "docker" -> "done"]
    /\ UNCHANGED <<docvars, envvars, path, call>>

\* action_go_back: the screen is popped, and its workers with it
GoBack ==
    /\ screen.mounted /\ screen.active
    /\ screen' = NoScreen
    /\ UNCHANGED <<docvars, envvars, path, call>>

\* _show_editor(field) of action_edit_status and action_edit_priority:
\* assigning the Select's value posts Changed when the value changes
ShowEditor(field) ==
    /\ screen.mounted /\ screen.active
    /\ screen.project.has_overview
    /\ screen.events = <<>>
    /\ screen' =
           [screen EXCEPT
               !.editing = field,
               !.select[field] = IF screen.project[field] # <<>>
                                 THEN normalize(screen.project[field], presets_of(field))
                                 ELSE @,
               !.events = IF /\ screen.project[field] # <<>>
                             /\ normalize(screen.project[field], presets_of(field))
                                    # screen.select[field]
                          THEN Append(@, Changed(field,
                                                 normalize(screen.project[field],
                                                           presets_of(field)),
                                                 "assignment"))
                          ELSE @,
               !.shown = @ \cup {field}]
    /\ UNCHANGED <<docvars, envvars, path, call>>

\* the user picks another option of a Select that is displayed
UserSelects(field, value) ==
    /\ screen.mounted /\ screen.active
    /\ field \in screen.shown
    /\ screen.events = <<>>
    /\ value # screen.select[field]
    /\ screen' = [screen EXCEPT !.select[field] = value,
                                !.events = Append(@, Changed(field, value, "user"))]
    /\ UNCHANGED <<docvars, envvars, path, call>>

\* the screen after on_select_changed(event)
select_changed(s, event) ==
    IF event.select # s.editing THEN s
    ELSE IF event.value = ADD_NEW_SENTINEL
    THEN [s EXCEPT !.adding_new = event.select,
                   !.shown = (@ \ {event.select}) \cup {"new-option"}]
    ELSE hide_editors([s EXCEPT !.project[event.select] = event.value])

\* on_select_changed writes the field
select_writes(s, event) == event.select = s.editing /\ event.value # ADD_NEW_SENTINEL

field_key(field) == IF field = "status" THEN <<"S", "t", "a", "t", "u", "s">> ELSE <<"P", "r", "i", "o", "r", "i", "t", "y">>

\* on_select_changed(event), for the oldest message posted
SelectChanged ==
    /\ screen.mounted
    /\ Len(screen.events) > 0
    /\ screen' = [select_changed(screen, screen.events[1]) EXCEPT !.events = Tail(screen.events)]
    /\ file' = IF select_writes(screen, screen.events[1])
               THEN write_yaml(file, field_key(screen.events[1].select),
                               screen.events[1].value)
               ELSE file
    /\ out' = [of |-> "select_changed", event |-> screen.events[1],
               wrote |-> select_writes(screen, screen.events[1]),
               closed |-> screen.editing # ""
                              /\ select_changed(screen, screen.events[1]).editing = ""]
    /\ UNCHANGED <<prev, op, writes, doc, given, project_md, root, journal, now, path, call>>

\* action_cancel_or_back
CancelOrBack ==
    /\ screen.mounted /\ screen.active
    /\ screen' = IF screen.editing # "" THEN hide_editors(screen) ELSE NoScreen
    /\ UNCHANGED <<docvars, envvars, path, call>>

(* the overview files of the screen's project *)

OvLower == <<"-", "-", "-", "\n", "S", "t", "a", "t", "u", "s", ":", " ", "p", "a", "u", "s", "e", "d", "\n", "P", "r", "i", "o", "r", "i", "t", "y", ":", " ", "l", "o", "w", "\n", "-", "-", "-", "\n", "#", " ", "T">>
ScreenFiles == {OvActive, OvLower}

InitScreen ==
    /\ file \in ScreenFiles
    /\ prev = file
    /\ op = NoOp
    /\ writes = 0
    /\ doc = NoDoc
    /\ given = NoGiven
    /\ EnvIdle

(* SpecFetch: the fetches of the live data and their workers *)

NextFetch ==
    \/ Mount
    \/ OpenScreen
    \/ ScreenResume
    \/ \E text \in ScreenFiles : EditFile(text)
    \/ \E fetch \in 1..MaxFetches : WorkerStep(fetch)
    \/ GoBack

SpecFetch == InitScreen /\ [][NextFetch]_vars

Lines == {"modified", "git", "docker"}

\* C26: a late result of an earlier fetch never overwrites what a newer
\* fetch displays: every line of the live panel shows the loading mark or
\* the result of the most recent fetch, and once every worker is done the
\* panel shows the results of the most recent fetch.
C26_NewestShown ==
    screen.mounted =>
        /\ \A line \in Lines : screen.panel[line].fetch = screen.fetches
        /\ (\A fetch \in 1..Len(screen.workers) : screen.workers[fetch] = "done") =>
               \A line \in Lines : screen.panel[line] = Loaded(screen.fetches)

(* SpecSelect: the inline Select editors *)

SelectValues(field) == {presets_of(field)[1], presets_of(field)[2], ADD_NEW_SENTINEL}

NextSelect ==
    \/ Mount
    \/ \E field \in {"status", "priority"} : ShowEditor(field)
    \/ \E field \in {"status", "priority"} :
           \E value \in SelectValues(field) : UserSelects(field, value)
    \/ SelectChanged
    \/ CancelOrBack

SpecSelect == InitScreen /\ [][NextSelect]_vars

\* C30: only a selection the user makes while the field's editor is open
\* writes Status or Priority: a Select.Changed posted at mount or by the
\* value assignment of _show_editor neither writes to the overview file nor
\* closes the editor, and the sentinel of `+ Add new...` is never written.
C30_OnlyUserWrites ==
    out.of = "select_changed" =>
        /\ (out.wrote \/ out.closed) => out.event.origin = "user"
        /\ out.wrote => out.event.value # ADD_NEW_SENTINEL

----------------------------------------------------------------------------
(* Reading a field back after _write_yaml (SpecField) *)

\* parse_document(path).get(key) returns value
ReadsBack(d, key, value) == d.raised = NoException /\ doc_get(d, key, <<>>) = value

\* C27: after write_field(path, key, value) with a non-empty value, parsing
\* the file afresh and getting key returns value, whether the file had a
\* frontmatter block, none, or an unterminated one.
C27_ReadAfterWrite ==
    (Wrote("write_field") /\ op.b # <<>>) => ReadsBack(parse_document(file), op.a, op.b)

----------------------------------------------------------------------------
(* write_section called twice (SpecSection) *)

\* C28: calling write_section(path, heading, newContent) again right after a
\* call leaves the file as the first call left it, for every file, heading
\* and content, the empty content and a heading that was not there included.
C28_Idempotent ==
    Wrote("write_section") => write_section(file, op.a, op.b) = file

====
